---- MODULE Spec2Model ----
(***************************************************************************)
(* Model of the financial projection engine of FinancialCalculator         *)
(* (client/src/lib/finance-calculations.ts).                               *)
(*                                                                         *)
(* The engine computes on JavaScript numbers, i.e. IEEE-754 binary64.      *)
(* The first part of the module is that arithmetic: natural numbers of     *)
(* arbitrary size as little-endian sequences of 15-bit limbs, and on top   *)
(* of them doubles with round-to-nearest-even, NaN, the infinities and     *)
(* signed zero.  The second part translates the projectors line by line.   *)
(***************************************************************************)
EXTENDS Integers, Sequences, FiniteSets, Bags, TLC

(***************************************************************************)
(* Natural numbers: <<l1, ..., ln>> is l1 + l2*Base + ... , ln # 0.        *)
(***************************************************************************)
Base == 32768
LimbBits == 15

Max(a, b) == IF a >= b THEN a ELSE b
Min(a, b) == IF a <= b THEN a ELSE b

\* the sum of the values of a sequence of natural numbers: the size of the
\* bag that holds element i f[i] + 1 times, less one per element
Sum(f) == BagCardinality([i \in DOMAIN f |-> f[i] + 1]) - Len(f)

\* limb i of a, zero beyond its length
Limb(a, i) == IF i >= 1 /\ i <= Len(a) THEN a[i] ELSE 0

\* a without its leading zero limbs
BTrimTo(a, top) == IF top = {} THEN <<>> ELSE SubSeq(a, 1, CHOOSE i \in top : \A j \in top : j <= i)

BTrim(a) == BTrimTo(a, {i \in 1..Len(a) : a[i] # 0})

RECURSIVE BFromNat(_)
BFromNat(n) == IF n = 0 THEN <<>> ELSE <<n % Base>> \o BFromNat(n \div Base)

\* the carry into limb i of a + b + c: some limb below generates one (or c
\* comes in) and every limb between passes it on
CarryInto(a, b, c, i) ==
  IF \/ \E j \in 1..(i - 1) : /\ Limb(a, j) + Limb(b, j) >= Base
                              /\ \A k \in (j + 1)..(i - 1) : Limb(a, k) + Limb(b, k) = Base - 1
     \/ c = 1 /\ \A k \in 1..(i - 1) : Limb(a, k) + Limb(b, k) = Base - 1
  THEN 1 ELSE 0

BAddLimbs(a, b, c, n) ==
  [i \in 1..n |-> (Limb(a, i) + Limb(b, i) + CarryInto(a, b, c, i)) % Base]
    \o (IF CarryInto(a, b, c, n + 1) = 1 THEN <<1>> ELSE <<>>)

\* a + b + c for a carry c of 0 or 1
BAddC(a, b, c) == BAddLimbs(a, b, c, Max(Len(a), Len(b)))

BAdd(a, b) == BAddC(a, b, 0)

\* the borrow from limb i of a - b
BorrowFrom(a, b, i) ==
  IF \E j \in 1..(i - 1) : /\ Limb(a, j) < Limb(b, j)
                           /\ \A k \in (j + 1)..(i - 1) : Limb(a, k) = Limb(b, k)
  THEN 1 ELSE 0

\* a - b for a >= b
BSub(a, b) ==
  BTrim([i \in 1..Len(a) |-> (Limb(a, i) - Limb(b, i) - BorrowFrom(a, b, i) + Base) % Base])

BCmpTop(a, b, i) == IF a[i] < b[i] THEN -1 ELSE 1

BCmpAt(a, b, diff) ==
  IF diff = {} THEN 0 ELSE BCmpTop(a, b, CHOOSE i \in diff : \A j \in diff : j <= i)

\* -1, 0, 1 as a < b, a = b, a > b
BCmp(a, b) ==
  IF Len(a) < Len(b) THEN -1
  ELSE IF Len(a) > Len(b) THEN 1
  ELSE BCmpAt(a, b, {i \in 1..Len(a) : a[i] # b[i]})

\* the number whose limb i is d[i], for d[i] < Base * Base
BCarry(d) ==
  BTrim(BAdd([i \in 1..Len(d) |-> d[i] % Base], <<0>> \o [i \in 1..Len(d) |-> d[i] \div Base]))

\* a * d for one limb d
BMulSmall(a, d) == BCarry([i \in 1..Len(a) |-> a[i] * d])

\* column k of the long multiplication: the low limbs of the products
\* a[i] * b[j] with i + j = k + 1, and the high limbs of those of column k - 1
BMulLow(a, b, k) ==
  Sum([i \in 1..Len(a) |-> (a[i] * Limb(b, k + 1 - i)) % Base])

BMulHigh(a, b, k) ==
  Sum([i \in 1..Len(a) |-> (a[i] * Limb(b, k + 1 - i)) \div Base])

BMul(a, b) ==
  IF a = <<>> \/ b = <<>> THEN <<>>
  ELSE BCarry([k \in 1..(Len(a) + Len(b)) |-> BMulLow(a, b, k) + BMulHigh(a, b, k - 1)])

Zeros(n) == [i \in 1..n |-> 0]

\* a * 2^k
BShl(a, k) ==
  IF a = <<>> THEN a
  ELSE Zeros(k \div LimbBits) \o BMulSmall(a, 2 ^ (k % LimbBits))

\* floor(a / 2^k)
BShr(a, k) ==
  LET q == k \div LimbBits
      r == k % LimbBits
      n == Len(a) - q
      lo == 2 ^ r
      hi == 2 ^ (LimbBits - r)
  IN  IF n <= 0 THEN <<>>
      ELSE BTrim([i \in 1..n |->
                    (a[q + i] \div lo)
                    + (IF i < n THEN (a[q + i + 1] % lo) * hi ELSE 0)])

\* bit k of a (bit 0 is the lowest)
BBit(a, k) ==
  LET q == k \div LimbBits
  IN  IF q >= Len(a) THEN 0 ELSE (a[q + 1] \div (2 ^ (k % LimbBits))) % 2

\* a mod 2^k = 0
BLowZero(a, k) ==
  LET q == k \div LimbBits
  IN  /\ \A i \in 1..Min(q, Len(a)) : a[i] = 0
      /\ (q < Len(a) => a[q + 1] % (2 ^ (k % LimbBits)) = 0)

\* number of bits of a limb
LimbLen(d) == CHOOSE n \in 0..LimbBits : d < 2 ^ n /\ (n = 0 \/ d >= 2 ^ (n - 1))

\* number of bits of a
BBitLen(a) ==
  IF a = <<>> THEN 0 ELSE LimbBits * (Len(a) - 1) + LimbLen(a[Len(a)])

\* the value of a short number as an integer
BToNat(a) == Sum([i \in 1..Len(a) |-> a[i] * Base ^ (i - 1)])

\* floor(a * 2^n / b) and whether the division left a remainder, for a < b:
\* n steps of restoring division, run as a balanced recursion
DivStep(s, b) ==
  LET r2 == BAddC(s.r, s.r, 0)
  IN  IF BCmp(r2, b) >= 0
      THEN [r |-> BSub(r2, b), q |-> BAddC(s.q, s.q, 1)]
      ELSE [r |-> r2, q |-> BAddC(s.q, s.q, 0)]

RECURSIVE DivRun(_, _, _)
DivRun(s, b, n) ==
  IF n = 0 THEN s
  ELSE IF n = 1 THEN DivStep(s, b)
  ELSE LET left == DivRun(s, b, n \div 2)
       IN  IF left.q = left.q THEN DivRun(left, b, n - n \div 2) ELSE left

(***************************************************************************)
(* JavaScript numbers (IEEE-754 binary64).  A finite number is             *)
(* (-1)^s * m * 2^e with m < 2^53; it is kept normalised (m >= 2^52, or    *)
(* e = -1074 for a subnormal, or m = <<>> and e = 0 for a zero), so that   *)
(* equal records are equal numbers.                                        *)
(***************************************************************************)
MantBits == 53
MinExp == 0 - 1074
MaxBits == 1024

NaN == [k |-> "nan", s |-> 0, m |-> <<>>, e |-> 0]
Inf(s) == [k |-> "inf", s |-> s, m |-> <<>>, e |-> 0]
Zero(s) == [k |-> "fin", s |-> s, m |-> <<>>, e |-> 0]

IsNaN(x) == x.k = "nan"
IsInf(x) == x.k = "inf"
IsFinite(x) == x.k = "fin"
IsZero(x) == x.k = "fin" /\ x.m = <<>>

\* The double (-1)^s * m * 2^e for m < 2^53, or the infinity it overflows to
Pack(s, m, e) ==
  IF m = <<>> THEN Zero(s)
  ELSE IF e + BBitLen(m) > MaxBits THEN Inf(s)
  ELSE [k |-> "fin", s |-> s, m |-> m, e |-> e]

\* a rounded mantissa that reached 2^53 moves to the next exponent
PackCarry(s, m, e) ==
  IF BBitLen(m) > MantBits THEN Pack(s, BShr(m, 1), e + 1) ELSE Pack(s, m, e)

\* q = floor(N / 2^sh) rounded to nearest, ties to even, on the bits dropped
RoundUp(q, N, sh, sticky) ==
  IF BBit(N, sh - 1) = 1 /\ (sticky \/ ~BLowZero(N, sh - 1) \/ BBit(q, 0) = 1)
  THEN BAddC(q, <<>>, 1)
  ELSE q

RoundShift(N, sh, sticky) ==
  IF sh <= 0 THEN BShl(N, 0 - sh) ELSE RoundUp(BShr(N, sh), N, sh, sticky)

\* N * 2^E rounded to a multiple of 2^t
RoundAt(s, N, E, sticky, t) == PackCarry(s, RoundShift(N, t - E, sticky), t)

\* The double nearest to (-1)^s * (N + d) * 2^E, ties to even, where
\* 0 <= d < 1 and d > 0 iff sticky; a sticky N has more than 54 bits.
RoundPack(s, N, E, sticky) ==
  IF N = <<>> THEN Zero(s)
  ELSE RoundAt(s, N, E, sticky, Max(E + BBitLen(N) - MantBits, MinExp))

\* an integer of the model as a number
FromInt(n) == RoundPack(IF n < 0 THEN 1 ELSE 0, BFromNat(IF n < 0 THEN 0 - n ELSE n), 0, FALSE)

\* m * 2^e for integers m and e (the literal of a dyadic fraction)
Dyadic(n, e) == RoundPack(IF n < 0 THEN 1 ELSE 0, BFromNat(IF n < 0 THEN 0 - n ELSE n), e, FALSE)

Neg(x) == IF x.k = "nan" THEN x ELSE [x EXCEPT !.s = 1 - x.s]

\* big + small when small is below 2^-8 of the last bit of big: small only
\* decides the direction of rounding
FarApart == 64

AddFar(big, small) ==
  RoundPack(big.s,
            IF big.s = small.s THEN BShl(big.m, 3) ELSE BSub(BShl(big.m, 3), <<1>>),
            big.e - 3, TRUE)

\* nx * 2^e with sign sx plus ny * 2^e with sign sy; c compares nx to ny
AddAligned(sx, nx, sy, ny, e, c) ==
  RoundPack(IF sx = sy THEN sx ELSE IF c = 0 THEN 0 ELSE IF c > 0 THEN sx ELSE sy,
            IF sx = sy THEN BAdd(nx, ny)
            ELSE IF c = 0 THEN <<>>
            ELSE IF c > 0 THEN BSub(nx, ny)
            ELSE BSub(ny, nx),
            e, FALSE)

AddNear(sx, nx, sy, ny, e) == AddAligned(sx, nx, sy, ny, e, BCmp(nx, ny))

\* x + y
FAdd(x, y) ==
  IF IsNaN(x) \/ IsNaN(y) THEN NaN
  ELSE IF IsInf(x) /\ IsInf(y) THEN (IF x.s = y.s THEN x ELSE NaN)
  ELSE IF IsInf(x) THEN x
  ELSE IF IsInf(y) THEN y
  ELSE IF IsZero(x) /\ IsZero(y) THEN Zero(IF x.s = 1 /\ y.s = 1 THEN 1 ELSE 0)
  ELSE IF IsZero(x) THEN y
  ELSE IF IsZero(y) THEN x
  ELSE IF x.e - y.e > FarApart \/ y.e - x.e > FarApart
       THEN AddFar(IF x.e > y.e THEN x ELSE y, IF x.e > y.e THEN y ELSE x)
  ELSE AddNear(x.s, BShl(x.m, x.e - Min(x.e, y.e)),
               y.s, BShl(y.m, y.e - Min(x.e, y.e)), Min(x.e, y.e))

\* x - y
FSub(x, y) == FAdd(x, Neg(y))

Xor(a, b) == IF a = b THEN 0 ELSE 1

\* x * y
FMul(x, y) ==
  IF IsNaN(x) \/ IsNaN(y) THEN NaN
  ELSE IF IsInf(x) \/ IsInf(y)
       THEN (IF IsZero(x) \/ IsZero(y) THEN NaN ELSE Inf(Xor(x.s, y.s)))
  ELSE IF IsZero(x) \/ IsZero(y) THEN Zero(Xor(x.s, y.s))
  ELSE RoundPack(Xor(x.s, y.s), BMul(x.m, y.m), x.e + y.e, FALSE)

\* x / y
QuotBits == 58

\* a / b for a < b < 4a, as (q + d) * 2^(-QuotBits)
DivPack(s, d, e) == RoundPack(s, d.q, e - QuotBits, d.r # <<>>)

\* a * 2^ea / (b * 2^eb) for a and b of the same length
DivAligned(s, a, ea, b, eb) ==
  IF BCmp(a, b) >= 0
  THEN DivPack(s, DivRun([r |-> a, q |-> <<>>], BShl(b, 1), QuotBits), ea - eb + 1)
  ELSE DivPack(s, DivRun([r |-> a, q |-> <<>>], b, QuotBits), ea - eb)

DivFinite(s, x, y, lx, ly) ==
  DivAligned(s, BShl(x.m, Max(0, ly - lx)), x.e - Max(0, ly - lx),
                BShl(y.m, Max(0, lx - ly)), y.e - Max(0, lx - ly))

FDiv(x, y) ==
  IF IsNaN(x) \/ IsNaN(y) THEN NaN
  ELSE IF IsInf(x) THEN (IF IsInf(y) THEN NaN ELSE Inf(Xor(x.s, y.s)))
  ELSE IF IsInf(y) THEN Zero(Xor(x.s, y.s))
  ELSE IF IsZero(y) THEN (IF IsZero(x) THEN NaN ELSE Inf(Xor(x.s, y.s)))
  ELSE IF IsZero(x) THEN Zero(Xor(x.s, y.s))
  ELSE DivFinite(Xor(x.s, y.s), x, y, BBitLen(x.m), BBitLen(y.m))

Sign(x) == IF IsZero(x) THEN 0 ELSE IF x.s = 1 THEN -1 ELSE 1

\* the position of the leading bit, with the infinities above and zero below all
Magnitude(x) ==
  IF IsInf(x) THEN 5000 ELSE IF IsZero(x) THEN 0 - 5000 ELSE x.e + BBitLen(x.m)

CmpMantissa(x, y, e) == BCmp(BShl(x.m, x.e - e), BShl(y.m, y.e - e))

CmpMagnitude(x, y, mx, my) ==
  IF mx < my THEN -1
  ELSE IF mx > my THEN 1
  ELSE IF IsInf(x) \/ IsZero(x) THEN 0
  ELSE CmpMantissa(x, y, Min(x.e, y.e))

CmpSigned(x, y, sx, sy) ==
  IF sx < sy THEN -1
  ELSE IF sx > sy THEN 1
  ELSE IF sx = 0 THEN 0
  ELSE sx * CmpMagnitude(x, y, Magnitude(x), Magnitude(y))

\* -1, 0, 1 for finite or infinite x, y
Cmp(x, y) == CmpSigned(x, y, Sign(x), Sign(y))

\* numeric comparison (false whenever NaN takes part)
FLt(x, y) == ~IsNaN(x) /\ ~IsNaN(y) /\ Cmp(x, y) < 0
FLe(x, y) == ~IsNaN(x) /\ ~IsNaN(y) /\ Cmp(x, y) <= 0
FEq(x, y) == ~IsNaN(x) /\ ~IsNaN(y) /\ Cmp(x, y) = 0

\* no value: the model does not cover the argument (TLC stops there)
Unmodelled == CHOOSE v \in {} : TRUE

\* Math.round: floor(x + 0.5), computed exactly; -0 for -0.5 <= x <= -0
Half(k) == BShl(<<1>>, k - 1)

MathRound(x) ==
  IF ~IsFinite(x) \/ IsZero(x) THEN x
  ELSE IF x.e >= 0 THEN x
  ELSE IF BBitLen(x.m) + x.e < 0 - 1 THEN Zero(x.s)
  ELSE LET k == 0 - x.e
       IN  IF x.s = 0
           THEN RoundPack(0, BShr(BAdd(x.m, Half(k)), k), 0, FALSE)
           ELSE IF BCmp(x.m, Half(k)) <= 0 THEN Zero(1)
           ELSE RoundPack(1, BShr(BAdd(BSub(x.m, Half(k)), BSub(BShl(<<1>>, k), <<1>>)), k),
                          0, FALSE)

\* Math.max of two numbers
MathMax(x, y) ==
  IF IsNaN(x) \/ IsNaN(y) THEN NaN
  ELSE IF Cmp(x, y) > 0 THEN x
  ELSE IF Cmp(x, y) < 0 THEN y
  ELSE IF IsZero(x) /\ x.s = 1 THEN y ELSE x

\* x is a whole number
IsInteger(x) ==
  IsFinite(x) /\ (IsZero(x) \/ x.e >= 0 \/ (0 - x.e < MantBits /\ BLowZero(x.m, 0 - x.e)))

\* the integer a whole number below 2^31 in size stands for
ToInt(x) ==
  IF IsZero(x) THEN 0
  ELSE LET n == IF x.e >= 0 THEN BToNat(BShl(x.m, x.e)) ELSE BToNat(BShr(x.m, 0 - x.e))
       IN  IF x.s = 1 THEN 0 - n ELSE n

FitsInt(x) == IsFinite(x) /\ (IsZero(x) \/ BBitLen(x.m) + x.e <= 30)

(***************************************************************************)
(* Math.pow and the ** operator for a whole exponent.  ECMAScript leaves   *)
(* the precision of pow to the engine; the engines in use return the       *)
(* double nearest to the power, and that is the model: the power is formed *)
(* by squaring and multiplying on ExtBits-bit intermediates and rounded    *)
(* once at the end.                                                         *)
(***************************************************************************)
ExtBits == 8 * LimbBits
ExtLimit == 3000

ExtTruncAt(N, E, st, L) ==
  IF E + L > ExtLimit THEN [N |-> <<1>>, E |-> ExtLimit, st |-> FALSE]
  ELSE IF E + L < 0 - ExtLimit THEN [N |-> <<1>>, E |-> 0 - ExtLimit, st |-> TRUE]
  ELSE IF L <= ExtBits THEN [N |-> N, E |-> E, st |-> st]
  ELSE [N |-> BShr(N, L - ExtBits), E |-> E + L - ExtBits,
        st |-> st \/ ~BLowZero(N, L - ExtBits)]

\* (N + d) * 2^E cut to ExtBits bits, the bits dropped kept as a sticky flag
ExtTrunc(N, E, st) == ExtTruncAt(N, E, st, BBitLen(N))

ExtMul(a, b) == ExtTrunc(BMul(a.N, b.N), a.E + b.E, a.st \/ b.st)

ExtSquare(h) == ExtMul(h, h)

\* x^n from h = x^(n \div 2); h is computed before it is squared
ExtPowStep(h, x, n) ==
  IF h.E # h.E THEN h
  ELSE IF n % 2 = 1 THEN ExtMul(ExtSquare(h), x)
  ELSE ExtSquare(h)

\* x^n for n >= 1
RECURSIVE ExtPow(_, _)
ExtPow(x, n) == IF n = 1 THEN x ELSE ExtPowStep(ExtPow(x, n \div 2), x, n)

ExtQuot(d, E) == [N |-> d.q, E |-> E, st |-> TRUE]

ExtRecipAt(p, L) ==
  IF BCmp(BShl(<<1>>, L - 1), p.N) = 0 /\ ~p.st
  THEN [N |-> <<1>>, E |-> 0 - p.E - (L - 1), st |-> FALSE]
  ELSE ExtQuot(DivRun([r |-> BShl(<<1>>, L - 1), q |-> <<>>], p.N, QuotBits + 6),
               0 - (QuotBits + 6) - (L - 1) - p.E)

\* 1 / p to QuotBits + 6 bits
ExtRecip(p) == ExtRecipAt(p, BBitLen(p.N))

IsOdd(y) == IsInteger(y) /\ FitsInt(y) /\ ToInt(y) % 2 # 0

PowRound(s, v) == RoundPack(s, v.N, v.E, v.st)

PowMagnitude(x, n) == ExtPow([N |-> x.m, E |-> x.e, st |-> FALSE], n)

\* x^n for finite nonzero x and a whole n # 0
PowWhole(x, n) ==
  PowRound(IF x.s = 1 /\ n % 2 # 0 THEN 1 ELSE 0,
           IF n < 0 THEN ExtRecip(PowMagnitude(x, 0 - n)) ELSE PowMagnitude(x, n))

\* |x| against 1 decides the power for an infinite exponent
PowInfinite(c, y) ==
  IF c = 0 THEN NaN ELSE IF (c > 0) = (y.s = 0) THEN Inf(0) ELSE Zero(0)

PowSign(x, y) == IF x.s = 1 /\ IsOdd(y) THEN 1 ELSE 0

MathPow(x, y) ==
  IF IsNaN(y) THEN NaN
  ELSE IF IsZero(y) THEN FromInt(1)
  ELSE IF IsNaN(x) THEN NaN
  ELSE IF IsInf(y)
       THEN PowInfinite(Cmp([x EXCEPT !.s = 0], FromInt(1)), y)
  ELSE IF IsInf(x) \/ IsZero(x)
       THEN (IF IsInf(x) = (y.s = 0) THEN Inf(PowSign(x, y)) ELSE Zero(PowSign(x, y)))
  ELSE IF ~(IsInteger(y) /\ FitsInt(y)) THEN Unmodelled
  ELSE PowWhole(x, ToInt(y))

\* Number.prototype.toString of a non-negative whole number: its decimal digits
Digit(d) == <<"0", "1", "2", "3", "4", "5", "6", "7", "8", "9">>[d + 1]

RECURSIVE NatToString(_)
NatToString(n) == IF n < 10 THEN Digit(n) ELSE NatToString(n \div 10) \o Digit(n % 10)

(***************************************************************************)
(* The projectors of finance-calculations.ts.  A number argument is a      *)
(* double; timePeriod and tenure are whole numbers of years.  currentYear  *)
(* is what new Date().getFullYear() returns at the time of the call.       *)
(***************************************************************************)
One == FromInt(1)
Twelve == FromInt(12)
Hundred == FromInt(100)

\* iterations of "for (let year = 1; year <= timePeriod; year++)"
LoopYears(timePeriod) ==
  IF IsNaN(timePeriod) THEN 0
  ELSE IF Cmp(timePeriod, One) < 0 THEN 0
  ELSE IF IsInteger(timePeriod) /\ FitsInt(timePeriod) THEN ToInt(timePeriod)
  ELSE Unmodelled

\* the switch on frequency with a default of one period a year
PeriodsPerYearDefaultYearly(frequency) ==
  IF frequency = "daily" THEN 365
  ELSE IF frequency = "weekly" THEN 52
  ELSE IF frequency = "monthly" THEN 12
  ELSE IF frequency = "quarterly" THEN 4
  ELSE 1

\* the switch on frequency
PeriodsPerYear(frequency) ==
  IF frequency = "daily" THEN 365
  ELSE IF frequency = "weekly" THEN 52
  ELSE IF frequency = "monthly" THEN 12
  ELSE IF frequency = "quarterly" THEN 4
  ELSE IF frequency = "yearly" THEN 1
  ELSE 12

\* the annual rate spread over the periods of a year; "yearly" does not divide
RatePerPeriod(rateOfReturn, frequency) ==
  IF frequency = "yearly" THEN rateOfReturn
  ELSE FDiv(rateOfReturn, FromInt(PeriodsPerYear(frequency)))

PeriodicRate(rateOfReturn, frequency) ==
  FDiv(RatePerPeriod(rateOfReturn, frequency), Hundred)

\* the label of the year after the one an entry is for
YearLabelOfNextYear(currentYear, year) == NatToString(currentYear + year)

YearLabel(currentYear, year) == NatToString(currentYear + year - 1)

\* the future value without the closing factor (1 + r): contributions at the
\* end of each period
SipFutureValueOrdinary(investmentAmount, periodicRate, periods) ==
  FMul(investmentAmount,
       FDiv(FSub(MathPow(FAdd(One, periodicRate), periods), One), periodicRate))

\* P * ({[1 + r]^n - 1} / r) * (1 + r)
SipFutureValue(investmentAmount, periodicRate, periods) ==
  FMul(FMul(investmentAmount,
            FDiv(FSub(MathPow(FAdd(One, periodicRate), periods), One), periodicRate)),
       FAdd(One, periodicRate))

\* the entry the yearly loop of calculateSip pushes, and the loop's next state
SipPush(st, runningInvestment, runningBalance, currentYear) ==
  [year |-> st.year + 1,
   runningInvestment |-> runningInvestment,
   yearlyData |-> Append(st.yearlyData,
                         [year |-> st.year,
                          yearLabel |-> YearLabel(currentYear, st.year),
                          investedAmount |-> runningInvestment,
                          balance |-> MathRound(runningBalance)])]

\* one pass of the yearly loop of calculateSip
SipYear(st, investmentAmount, periodicRate, periodsPerYear, currentYear) ==
  SipPush(st,
          FAdd(st.runningInvestment, FMul(investmentAmount, FromInt(periodsPerYear))),
          SipFutureValue(investmentAmount, periodicRate, FromInt(st.year * periodsPerYear)),
          currentYear)

RECURSIVE SipLoop(_, _, _, _, _, _)
SipLoop(st, n, investmentAmount, periodicRate, periodsPerYear, currentYear) ==
  IF st.year > n THEN st
  ELSE SipLoop(SipYear(st, investmentAmount, periodicRate, periodsPerYear, currentYear),
               n, investmentAmount, periodicRate, periodsPerYear, currentYear)

\* calculateSip reporting the returns from the rounded total alone
SipResultNoSubtraction(investedAmount, futureValue, yearlyData) ==
  [investedAmount |-> MathRound(investedAmount),
   estimatedReturns |-> MathRound(futureValue),
   totalValue |-> MathRound(futureValue),
   yearlyData |-> yearlyData]

\* the object calculateSip returns
SipResult(investedAmount, futureValue, yearlyData) ==
  [investedAmount |-> MathRound(investedAmount),
   estimatedReturns |-> MathRound(FSub(futureValue, investedAmount)),
   totalValue |-> MathRound(futureValue),
   yearlyData |-> yearlyData]

\* calculateSip once the switch has set periodsPerYear and periodicRate
SipTotals(investmentAmount, totalPeriods, timePeriod, periodsPerYear, periodicRate,
          currentYear) ==
  SipResult(FMul(investmentAmount, totalPeriods),
            SipFutureValue(investmentAmount, periodicRate, totalPeriods),
            SipLoop([year |-> 1, runningInvestment |-> Zero(0), yearlyData |-> <<>>],
                    LoopYears(timePeriod), investmentAmount, periodicRate,
                    periodsPerYear, currentYear).yearlyData)

SipSwitched(investmentAmount, timePeriod, periodsPerYear, periodicRate, currentYear) ==
  SipTotals(investmentAmount, FMul(timePeriod, FromInt(periodsPerYear)), timePeriod,
            periodsPerYear, periodicRate, currentYear)

calculateSip(investmentAmount, rateOfReturn, timePeriod, frequency, currentYear) ==
  SipSwitched(investmentAmount, timePeriod, PeriodsPerYear(frequency),
              PeriodicRate(rateOfReturn, frequency), currentYear)

\* the month's withdrawal counted only when the balance covers it
SwpWithdrawCountsPaid(st, left, monthlyWithdrawal) ==
  [yearEndBalance |-> IF FLt(left, Zero(0)) THEN Zero(0) ELSE left,
   thisYearWithdrawal |-> IF FLt(left, Zero(0)) THEN st.thisYearWithdrawal
                          ELSE FAdd(st.thisYearWithdrawal, monthlyWithdrawal),
   totalWithdrawal |-> IF FLt(left, Zero(0)) THEN st.totalWithdrawal
                       ELSE FAdd(st.totalWithdrawal, monthlyWithdrawal),
   month |-> st.month + 1,
   brk |-> FLt(left, Zero(0))]

\* the month's withdrawal from the grown balance; st.brk is the break
SwpWithdraw(st, left, monthlyWithdrawal) ==
  [yearEndBalance |-> IF FLt(left, Zero(0)) THEN Zero(0) ELSE left,
   thisYearWithdrawal |-> FAdd(st.thisYearWithdrawal, monthlyWithdrawal),
   totalWithdrawal |-> FAdd(st.totalWithdrawal, monthlyWithdrawal),
   month |-> st.month + 1,
   brk |-> FLt(left, Zero(0))]

\* one pass of the monthly loop of calculateSwp
SwpMonth(st, monthlyRate, monthlyWithdrawal) ==
  SwpWithdraw(st,
              FSub(FMul(st.yearEndBalance, FAdd(One, monthlyRate)), monthlyWithdrawal),
              monthlyWithdrawal)

RECURSIVE SwpMonths(_, _, _)
SwpMonths(st, monthlyRate, monthlyWithdrawal) ==
  IF st.brk \/ st.month > 12 THEN st
  ELSE SwpMonths(SwpMonth(st, monthlyRate, monthlyWithdrawal), monthlyRate, monthlyWithdrawal)

\* the yearly loop of calculateSwp without its break: it runs every year
SwpPushNeverStops(st, m, currentYear) ==
  [year |-> st.year + 1,
   balance |-> m.yearEndBalance,
   totalWithdrawal |-> m.totalWithdrawal,
   yearlyData |-> Append(st.yearlyData,
                         [year |-> st.year,
                          yearLabel |-> YearLabel(currentYear, st.year),
                          withdrawalAmount |-> MathRound(m.thisYearWithdrawal),
                          balance |-> MathMax(Zero(0), MathRound(m.yearEndBalance))]),
   brk |-> FALSE]

\* the yearly loop of calculateSwp leaving once a year ends on one currency
\* unit or less
SwpPushStopsAtOne(st, m, currentYear) ==
  [year |-> st.year + 1,
   balance |-> m.yearEndBalance,
   totalWithdrawal |-> m.totalWithdrawal,
   yearlyData |-> Append(st.yearlyData,
                         [year |-> st.year,
                          yearLabel |-> YearLabel(currentYear, st.year),
                          withdrawalAmount |-> MathRound(m.thisYearWithdrawal),
                          balance |-> MathMax(Zero(0), MathRound(m.yearEndBalance))]),
   brk |-> FLe(m.yearEndBalance, One)]

\* the entry the yearly loop of calculateSwp pushes after the months m of the
\* year; st.brk is the break
SwpPush(st, m, currentYear) ==
  [year |-> st.year + 1,
   balance |-> m.yearEndBalance,
   totalWithdrawal |-> m.totalWithdrawal,
   yearlyData |-> Append(st.yearlyData,
                         [year |-> st.year,
                          yearLabel |-> YearLabel(currentYear, st.year),
                          withdrawalAmount |-> MathRound(m.thisYearWithdrawal),
                          balance |-> MathMax(Zero(0), MathRound(m.yearEndBalance))]),
   brk |-> FLe(m.yearEndBalance, Zero(0))]

\* one pass of the yearly loop of calculateSwp with totalWithdrawal starting
\* the year afresh, as thisYearWithdrawal does
SwpYearTotalOfYear(st, monthlyRate, monthlyWithdrawal, currentYear) ==
  SwpPush(st,
          SwpMonths([yearEndBalance |-> st.balance, thisYearWithdrawal |-> Zero(0),
                     totalWithdrawal |-> Zero(0), month |-> 1, brk |-> FALSE],
                    monthlyRate, monthlyWithdrawal),
          currentYear)

\* one pass of the yearly loop of calculateSwp
SwpYear(st, monthlyRate, monthlyWithdrawal, currentYear) ==
  SwpPush(st,
          SwpMonths([yearEndBalance |-> st.balance, thisYearWithdrawal |-> Zero(0),
                     totalWithdrawal |-> st.totalWithdrawal, month |-> 1, brk |-> FALSE],
                    monthlyRate, monthlyWithdrawal),
          currentYear)

RECURSIVE SwpLoop(_, _, _, _, _)
SwpLoop(st, n, monthlyRate, monthlyWithdrawal, currentYear) ==
  IF st.brk \/ st.year > n THEN st
  ELSE SwpLoop(SwpYear(st, monthlyRate, monthlyWithdrawal, currentYear),
               n, monthlyRate, monthlyWithdrawal, currentYear)

\* the object calculateSwp returns after the loop
SwpResult(loop, monthlyWithdrawal) ==
  [finalBalance |-> MathMax(Zero(0), MathRound(loop.balance)),
   totalWithdrawal |-> MathRound(loop.totalWithdrawal),
   yearlyWithdrawal |-> MathRound(FMul(monthlyWithdrawal, Twelve)),
   yearlyData |-> loop.yearlyData]

calculateSwp(initialInvestment, monthlyWithdrawal, rateOfReturn, timePeriod, currentYear) ==
  SwpResult(SwpLoop([year |-> 1, balance |-> initialInvestment,
                     totalWithdrawal |-> Zero(0), yearlyData |-> <<>>, brk |-> FALSE],
                    LoopYears(timePeriod), FDiv(FDiv(rateOfReturn, Twelve), Hundred),
                    monthlyWithdrawal, currentYear),
            monthlyWithdrawal)

\* P * r * growth / (growth - 1) for growth = (1 + r)^n
EmiRatio(principal, monthlyRate, growth) ==
  FDiv(FMul(FMul(principal, monthlyRate), growth), FSub(growth, One))

EmiOf(principal, monthlyRate, months) ==
  EmiRatio(principal, monthlyRate, MathPow(FAdd(One, monthlyRate), months))

\* the object calculateEmi returns with the principal left in the interest
EmiResultGrossInterest(emi, totalPayment, principal) ==
  [emi |-> MathRound(emi),
   totalInterest |-> MathRound(totalPayment),
   totalPayment |-> MathRound(totalPayment)]

\* the object calculateEmi returns
EmiResult(emi, totalPayment, principal) ==
  [emi |-> MathRound(emi),
   totalInterest |-> MathRound(FSub(totalPayment, principal)),
   totalPayment |-> MathRound(totalPayment)]

\* the total paid taken from the rounded instalment
EmiTotalsOfRounded(emi, months, principal) ==
  EmiResult(emi, FMul(MathRound(emi), months), principal)

EmiTotals(emi, months, principal) == EmiResult(emi, FMul(emi, months), principal)

EmiMonthly(principal, monthlyRate, months) ==
  EmiTotals(EmiOf(principal, monthlyRate, months), months, principal)

calculateEmi(principal, rate, tenure) ==
  EmiMonthly(principal, FDiv(FDiv(rate, Twelve), Hundred), FMul(tenure, Twelve))

\* a month of the schedule: its interest and the principal it repays
AmortPay(st, interestForMonth, principalForMonth) ==
  [month |-> st.month + 1,
   yearlyPrincipal |-> FAdd(st.yearlyPrincipal, principalForMonth),
   yearlyInterest |-> FAdd(st.yearlyInterest, interestForMonth),
   balance |-> FSub(st.balance, principalForMonth)]

AmortInterest(st, emi, interestForMonth) ==
  AmortPay(st, interestForMonth, FSub(emi, interestForMonth))

\* one pass of the monthly loop of generateAmortizationSchedule
AmortMonth(st, year, emi, monthlyRate, months) ==
  IF FLe(FromInt((year - 1) * 12 + st.month), months)
  THEN AmortInterest(st, emi, FMul(st.balance, monthlyRate))
  ELSE [st EXCEPT !.month = st.month + 1]

RECURSIVE AmortMonths(_, _, _, _, _)
AmortMonths(st, year, emi, monthlyRate, months) ==
  IF st.month > 12 THEN st
  ELSE AmortMonths(AmortMonth(st, year, emi, monthlyRate, months),
                   year, emi, monthlyRate, months)

\* the entry the yearly loop pushes after the months m of the year
AmortPush(st, m) ==
  [year |-> st.year + 1,
   balance |-> m.balance,
   yearlyData |-> Append(st.yearlyData,
                         [year |-> st.year,
                          principal |-> MathRound(m.yearlyPrincipal),
                          interest |-> MathRound(m.yearlyInterest),
                          balance |-> MathMax(Zero(0), MathRound(m.balance))])]

\* one pass of the yearly loop of generateAmortizationSchedule; the months of
\* a year are computed before the next year starts
AmortYear(st, emi, monthlyRate, months) ==
  AmortPush(st,
            AmortMonths([month |-> 1, yearlyPrincipal |-> Zero(0),
                         yearlyInterest |-> Zero(0), balance |-> st.balance],
                        st.year, emi, monthlyRate, months))

RECURSIVE AmortLoop(_, _, _, _, _)
AmortLoop(st, n, emi, monthlyRate, months) ==
  IF st.year > n THEN st
  ELSE AmortLoop(AmortYear(st, emi, monthlyRate, months), n, emi, monthlyRate, months)

AmortMonthly(principal, tenure, monthlyRate, months) ==
  AmortLoop([year |-> 1, balance |-> principal, yearlyData |-> <<>>],
            LoopYears(tenure), EmiOf(principal, monthlyRate, months), monthlyRate,
            months).yearlyData

generateAmortizationSchedule(principal, rate, tenure) ==
  AmortMonthly(principal, tenure, FDiv(FDiv(rate, Twelve), Hundred), FMul(tenure, Twelve))

\* the yearly loop of calculateLumpsum compounding from the start of the year
LumpsumYearFromStart(st, investmentAmount, annualRate, currentYear) ==
  [year |-> st.year + 1,
   yearlyData |-> Append(st.yearlyData,
                         [year |-> st.year,
                          yearLabel |-> YearLabel(currentYear, st.year),
                          investedAmount |-> investmentAmount,
                          balance |-> MathRound(FMul(investmentAmount,
                                                     MathPow(FAdd(One, annualRate),
                                                             FromInt(st.year - 1))))])]

\* one pass of the yearly loop of calculateLumpsum
LumpsumYear(st, investmentAmount, annualRate, currentYear) ==
  [year |-> st.year + 1,
   yearlyData |-> Append(st.yearlyData,
                         [year |-> st.year,
                          yearLabel |-> YearLabel(currentYear, st.year),
                          investedAmount |-> investmentAmount,
                          balance |-> MathRound(FMul(investmentAmount,
                                                     MathPow(FAdd(One, annualRate),
                                                             FromInt(st.year))))])]

RECURSIVE LumpsumLoop(_, _, _, _, _)
LumpsumLoop(st, n, investmentAmount, annualRate, currentYear) ==
  IF st.year > n THEN st
  ELSE LumpsumLoop(LumpsumYear(st, investmentAmount, annualRate, currentYear),
                   n, investmentAmount, annualRate, currentYear)

\* the object calculateLumpsum returns
LumpsumResult(investmentAmount, futureValue, yearlyData) ==
  [investedAmount |-> investmentAmount,
   estimatedReturns |-> MathRound(FSub(futureValue, investmentAmount)),
   totalValue |-> MathRound(futureValue),
   yearlyData |-> yearlyData]

LumpsumAnnual(investmentAmount, annualRate, timePeriod, currentYear) ==
  LumpsumResult(investmentAmount,
                FMul(investmentAmount, MathPow(FAdd(One, annualRate), timePeriod)),
                LumpsumLoop([year |-> 1, yearlyData |-> <<>>], LoopYears(timePeriod),
                            investmentAmount, annualRate, currentYear).yearlyData)

calculateLumpsum(investmentAmount, rateOfReturn, timePeriod, currentYear) ==
  LumpsumAnnual(investmentAmount, FDiv(rateOfReturn, Hundred), timePeriod, currentYear)

\* one pass of the period loop of calculateSipTopUp
TopUpPeriod(st, currentInvestmentAmount, periodicRate) ==
  [yearlyInvestment |-> FAdd(st.yearlyInvestment, currentInvestmentAmount),
   futureValue |-> FMul(FAdd(st.futureValue, currentInvestmentAmount),
                        MathPow(FAdd(One, periodicRate), One))]

\* n passes of the period loop, as a balanced recursion: the second half of
\* the passes starts from the state the first half left
RECURSIVE TopUpPeriods(_, _, _, _)
TopUpPeriods(st, n, currentInvestmentAmount, periodicRate) ==
  IF n = 0 THEN st
  ELSE IF n = 1 THEN TopUpPeriod(st, currentInvestmentAmount, periodicRate)
  ELSE LET left == TopUpPeriods(st, n \div 2, currentInvestmentAmount, periodicRate)
       IN  IF left.futureValue = left.futureValue
           THEN TopUpPeriods(left, n - n \div 2, currentInvestmentAmount, periodicRate)
           ELSE left

\* the amount of the next year, increased by the percentage taken as a
\* fraction
TopUpIncreaseByFactor(st, n, annualIncreasePercentage) ==
  IF st.year < n
  THEN FAdd(st.currentInvestmentAmount,
            FMul(st.currentInvestmentAmount, annualIncreasePercentage))
  ELSE st.currentInvestmentAmount

\* the amount of the next year: increased, except after the last year
TopUpIncrease(st, n, annualIncreasePercentage) ==
  IF st.year < n
  THEN FAdd(st.currentInvestmentAmount,
            FMul(st.currentInvestmentAmount, FDiv(annualIncreasePercentage, Hundred)))
  ELSE st.currentInvestmentAmount

\* the entry the yearly loop of calculateSipTopUp pushes
TopUpPush(st, n, annualIncreasePercentage, totalInvestedAmount, futureValue, currentYear) ==
  [year |-> st.year + 1,
   currentInvestmentAmount |-> TopUpIncrease(st, n, annualIncreasePercentage),
   totalInvestedAmount |-> totalInvestedAmount,
   futureValue |-> futureValue,
   yearlyData |-> Append(st.yearlyData,
                         [year |-> st.year,
                          yearLabel |-> YearLabel(currentYear, st.year),
                          investedAmount |-> totalInvestedAmount,
                          balance |-> MathRound(futureValue)])]

TopUpInvested(st, n, annualIncreasePercentage, p, currentYear) ==
  TopUpPush(st, n, annualIncreasePercentage,
            FAdd(st.totalInvestedAmount, p.yearlyInvestment), p.futureValue, currentYear)

\* the yearly loop of calculateSipTopUp without the growth of the balance
\* carried over from the year before
TopUpYearNoCarry(st, n, annualIncreasePercentage, periodicRate, periodsPerYear, currentYear) ==
  TopUpInvested(st, n, annualIncreasePercentage,
                TopUpPeriods([yearlyInvestment |-> Zero(0), futureValue |-> st.futureValue],
                             periodsPerYear, st.currentInvestmentAmount, periodicRate),
                currentYear)

\* one pass of the yearly loop of calculateSipTopUp: the balance grows for the
\* year, then the periods of the year are added
TopUpYear(st, n, annualIncreasePercentage, periodicRate, periodsPerYear, currentYear) ==
  TopUpInvested(st, n, annualIncreasePercentage,
                TopUpPeriods([yearlyInvestment |-> Zero(0),
                              futureValue |-> FMul(st.futureValue,
                                                   MathPow(FAdd(One, periodicRate),
                                                           FromInt(periodsPerYear)))],
                             periodsPerYear, st.currentInvestmentAmount, periodicRate),
                currentYear)

RECURSIVE TopUpLoop(_, _, _, _, _, _)
TopUpLoop(st, n, annualIncreasePercentage, periodicRate, periodsPerYear, currentYear) ==
  IF st.year > n THEN st
  ELSE TopUpLoop(TopUpYear(st, n, annualIncreasePercentage, periodicRate, periodsPerYear,
                           currentYear),
                 n, annualIncreasePercentage, periodicRate, periodsPerYear, currentYear)

\* the object calculateSipTopUp returns after the loop
TopUpResult(loop) ==
  [investedAmount |-> MathRound(loop.totalInvestedAmount),
   estimatedReturns |-> MathRound(FSub(loop.futureValue, loop.totalInvestedAmount)),
   totalValue |-> MathRound(loop.futureValue),
   yearlyData |-> loop.yearlyData]

calculateSipTopUp(investmentAmount, annualIncreasePercentage, rateOfReturn, timePeriod,
                  frequency, currentYear) ==
  TopUpResult(TopUpLoop([year |-> 1, currentInvestmentAmount |-> investmentAmount,
                         totalInvestedAmount |-> Zero(0), futureValue |-> Zero(0),
                         yearlyData |-> <<>>],
                        LoopYears(timePeriod), annualIncreasePercentage,
                        PeriodicRate(rateOfReturn, frequency), PeriodsPerYear(frequency),
                        currentYear))

(***************************************************************************)
(* The state machine: a caller holds one set of arguments and calls the    *)
(* projector they are for, any number of times, while the calendar year    *)
(* (the wall clock the projectors read) moves on.                          *)
(***************************************************************************)
VARIABLES
  args,     \* the arguments of the call: projector and numbers
  clock,    \* the calendar year new Date().getFullYear() returns now
  res,      \* what the last call returned
  prev,     \* what the call before it returned
  calls,    \* number of calls made
  user,     \* req.user: the user of the session the request comes with
  reply,    \* the HTTP status the handler answered with, 0 before it did
  loop,     \* where a call stands in the yearly loop of its projector
  users,    \* the rows of the users table, in the order of their serial ids
  sessions  \* the user id passport keeps in the session of each browser, or 0

vars == <<args, clock, res, prev, calls, user, reply, loop, users, sessions>>

MaxYears == 2
MaxCalls == 2
MaxTicks == 1
FirstYear == 2029

Frequencies == {"daily", "weekly", "monthly", "quarterly", "yearly", "fortnightly"}

Amounts == {FromInt(0), Dyadic(1, -1), FromInt(1000), FromInt(0 - 1000),
            FDiv(FromInt(123456), Hundred)}
Rates == {FromInt(0), Dyadic(17, -1), FromInt(12), FromInt(100)}
Withdrawals == {FromInt(0), Dyadic(1, -4), FromInt(50), FromInt(100)}
Increases == {FromInt(0), FromInt(10)}
Horizons == {FromInt(y) : y \in 0..MaxYears}

Args(fn, amount, extra, rate, years, frequency) ==
  [fn |-> fn, amount |-> amount, extra |-> extra, rate |-> rate, years |-> years,
   frequency |-> frequency]

SipInputs ==
  {Args("sip", a, Zero(0), r, y, f) : a \in Amounts, r \in Rates, y \in Horizons,
                                      f \in Frequencies}
    \cup {Args("sip", FromInt(5000), Zero(0), FromInt(12), FromInt(1), "monthly")}
SwpInputs ==
  {Args("swp", a, w, r, y, "") : a \in Amounts, w \in Withdrawals, r \in Rates, y \in Horizons}
    \cup {Args("swp", FromInt(1000000), FromInt(50000), FromInt(8), FromInt(5), "")}
    \cup {Args("swp", FromInt(563), FromInt(50), FromInt(12), FromInt(2), "")}
EmiInputs ==
  {Args("emi", a, Zero(0), r, y, "") : a \in Amounts, r \in Rates, y \in Horizons}
    \cup {Args("emi", FromInt(1000000), Zero(0), Dyadic(17, -1), FromInt(20), "")}
    \cup {Args("emi", FromInt(100000), Zero(0), FromInt(120), FromInt(30), "")}
ScheduleInputs ==
  {Args("schedule", a, Zero(0), r, y, "") : a \in Amounts, r \in Rates, y \in Horizons}
    \cup {Args("schedule", FromInt(1000000), Zero(0), Dyadic(17, -1), FromInt(20), "")}
    \cup {Args("schedule", FromInt(100000), Zero(0), FromInt(120), FromInt(30), "")}
    \cup {Args("schedule", FromInt(1000), Zero(0), FromInt(150), FromInt(30), "")}
LumpsumInputs ==
  {Args("lumpsum", a, Zero(0), r, y, "") : a \in Amounts, r \in Rates, y \in Horizons}
TopUpInputs ==
  {Args("topup", a, g, r, y, f) : a \in Amounts, g \in Increases, r \in Rates, y \in Horizons,
                                  f \in Frequencies \ {"daily", "weekly"}}
    \cup {Args("topup", FromInt(1000), g, FromInt(12), FromInt(1), f) :
            g \in Increases, f \in {"daily", "weekly"}}

NoResult == [status |-> "none", value |-> <<>>]
Returned(v) == [status |-> "returned", value |-> v]

\* a request without a session
NoUser == [id |-> 0, hasPremiumAccess |-> FALSE]

USER_ROLES == [USER |-> "USER", ADMIN |-> "ADMIN"]

\* bcrypt.hash(password, 10): the stored text is not the password
BcryptHash(password) == "$2b$10$" \o password

\* the users table when the server starts: the administrator of the
\* deployment, whom no route can create
SeedUsers ==
  <<[id |-> 1, username |-> "root", email |-> "root@site.io",
     password |-> BcryptHash("rootpass"), role |-> USER_ROLES.ADMIN,
     hasPremiumAccess |-> FALSE, createdAt |-> FirstYear]>>

\* the browsers that talk to the server, none of them logged in
Browsers == {"b1", "b2"}
NoSessions == [b \in Browsers |-> 0]
\* no call is inside a projector
Idle == [pc |-> "idle", year |-> 0, entries |-> 0]

InitWith(inputs) ==
  /\ args \in inputs
  /\ clock = FirstYear
  /\ res = NoResult
  /\ prev = NoResult
  /\ calls = 0
  /\ user = NoUser
  /\ reply = 0
  /\ loop = Idle
  /\ users = SeedUsers
  /\ sessions = NoSessions

\* the caller calls fn(args) and keeps what it returns
Call(fn, value) ==
  /\ args.fn = fn
  /\ calls < MaxCalls
  /\ res' = Returned(value)
  /\ prev' = res
  /\ calls' = calls + 1
  /\ UNCHANGED <<args, clock, user, reply, loop, users, sessions>>

CallSip ==
  Call("sip", calculateSip(args.amount, args.rate, args.years, args.frequency, clock))
CallSwp ==
  Call("swp", calculateSwp(args.amount, args.extra, args.rate, args.years, clock))
CallEmi ==
  Call("emi", calculateEmi(args.amount, args.rate, args.years))
CallSchedule ==
  Call("schedule", generateAmortizationSchedule(args.amount, args.rate, args.years))
CallLumpsum ==
  Call("lumpsum", calculateLumpsum(args.amount, args.rate, args.years, clock))
CallSipTopUp ==
  Call("topup", calculateSipTopUp(args.amount, args.extra, args.rate, args.years,
                                  args.frequency, clock))

\* New Year: the wall clock moves to the next calendar year
Tick ==
  /\ clock < FirstYear + MaxTicks
  /\ clock' = clock + 1
  /\ UNCHANGED <<args, res, prev, calls, user, reply, loop, users, sessions>>

Init == InitWith(SipInputs \cup SwpInputs \cup EmiInputs \cup ScheduleInputs
                   \cup LumpsumInputs \cup TopUpInputs)
Next == CallSip \/ CallSwp \/ CallEmi \/ CallSchedule \/ CallLumpsum \/ CallSipTopUp \/ Tick
Spec == Init /\ [][Next]_vars

InitSip == InitWith(SipInputs)
NextSip == CallSip
SpecSip == InitSip /\ [][NextSip]_vars

InitSwp == InitWith(SwpInputs)
NextSwp == CallSwp
SpecSwp == InitSwp /\ [][NextSwp]_vars

InitEmi == InitWith(EmiInputs \cup ScheduleInputs)
NextEmi == CallEmi \/ CallSchedule
SpecEmi == InitEmi /\ [][NextEmi]_vars

InitLumpsum == InitWith(LumpsumInputs)
NextLumpsum == CallLumpsum
SpecLumpsum == InitLumpsum /\ [][NextLumpsum]_vars

InitTopUp == InitWith(TopUpInputs)
NextTopUp == CallSipTopUp
SpecTopUp == InitTopUp /\ [][NextTopUp]_vars

\* the two projectors that take a frequency, called on every frequency
FrequencyInputs ==
  {a \in SipInputs \cup TopUpInputs :
     a.amount \in {FromInt(1000), FDiv(FromInt(123456), Hundred)}}
InitFrequency == InitWith(FrequencyInputs)
NextFrequency == CallSip \/ CallSipTopUp
SpecFrequency == InitFrequency /\ [][NextFrequency]_vars

\* the projectors that return a yearly series, called on plans of 1000 at 12
\* percent and on withdrawal plans that last and that run dry, while the
\* years pass
SeriesInputs ==
  {a \in SipInputs \cup ScheduleInputs \cup LumpsumInputs \cup TopUpInputs :
     a.rate = FromInt(12) /\ a.amount = FromInt(1000)}
    \cup {a \in SwpInputs : a.rate \in {FromInt(0), FromInt(12)} /\ FLe(FromInt(563), a.amount)}
InitSeries == InitWith(SeriesInputs)
NextSeries == CallSip \/ CallSwp \/ CallSchedule \/ CallLumpsum \/ CallSipTopUp \/ Tick
SpecSeries == InitSeries /\ [][NextSeries]_vars

(***************************************************************************)
(* The calculator routes of the server.  A query string is a sequence of   *)
(* characters; args holds the query of the request and its route.          *)
(***************************************************************************)
WhiteSpace == {" ", "\t", "\n"}
DigitChars == {Digit(d) : d \in 0..9}
DigitOf(c) == CHOOSE d \in 0..9 : Digit(d) = c
CharAt(str, i) == IF i \in 1..Len(str) THEN str[i] ELSE ""

\* the length of the longest run of characters of the set from position i on
RunOf(str, i, set) ==
  CHOOSE n \in 0..(Len(str) + 1 - i) :
    /\ \A j \in i..(i + n - 1) : str[j] \in set
    /\ CharAt(str, i + n) \notin set

\* the natural number the n digits from position i on spell
DecimalOf(str, i, n) == Sum([j \in 1..n |-> DigitOf(str[i + j - 1]) * 10 ^ (n - j)])

\* TRUE when an exponent part starts at position i
ExponentAt(str, i) ==
  /\ CharAt(str, i) \in {"e", "E"}
  /\ \/ CharAt(str, i + 1) \in DigitChars
     \/ CharAt(str, i + 1) \in {"+", "-"} /\ CharAt(str, i + 2) \in DigitChars

\* ni digits at i, then nf digits of a fraction at f: their value, signed
ParseDigits(str, s, i, ni, f, nf) ==
  IF ni + nf = 0 THEN NaN
  ELSE IF ExponentAt(str, f + nf) THEN Unmodelled
  ELSE [FDiv(FromInt(DecimalOf(str, i, ni) * 10 ^ nf + DecimalOf(str, f, nf)),
             FromInt(10 ^ nf)) EXCEPT !.s = s]

ParseFraction(str, s, i, ni) ==
  IF CharAt(str, i + ni) = "."
  THEN ParseDigits(str, s, i, ni, i + ni + 1, RunOf(str, i + ni + 1, DigitChars))
  ELSE ParseDigits(str, s, i, ni, i + ni, 0)

ParseUnsigned(str, s, i) ==
  IF SubSeq(str, i, Min(Len(str), i + 7)) = <<"I", "n", "f", "i", "n", "i", "t", "y">>
  THEN Inf(s)
  ELSE ParseFraction(str, s, i, RunOf(str, i, DigitChars))

ParseSigned(str, i) ==
  IF CharAt(str, i) = "-" THEN ParseUnsigned(str, 1, i + 1)
  ELSE IF CharAt(str, i) = "+" THEN ParseUnsigned(str, 0, i + 1)
  ELSE ParseUnsigned(str, 0, i)

\* parseFloat: the number the longest numeric prefix of the string spells
\* after leading white space, NaN when there is none
parseFloat(str) == ParseSigned(str, 1 + RunOf(str, 1, WhiteSpace))

isNaN(x) == IsNaN(x)

PREMIUM_CALCULATORS == {}

isAuthenticated == user # NoUser

\* storage.getUser for the user of the session
getUser(userId) == IF user.id = userId THEN user ELSE NoUser

hasAccessToCalculator(userId, calculatorType) ==
  IF calculatorType \notin PREMIUM_CALCULATORS THEN TRUE
  ELSE IF userId = 0 THEN FALSE
  ELSE getUser(userId).hasPremiumAccess

\* res.status(code).json(...) and return
Answer(code) ==
  /\ reply' = code
  /\ UNCHANGED <<args, clock, res, prev, calls, user, loop, users, sessions>>

\* res.json(result) with the result of the projector
AnswerResult(value) ==
  /\ reply' = 200
  /\ res' = Returned(value)
  /\ prev' = res
  /\ calls' = calls + 1
  /\ UNCHANGED <<args, clock, user, loop, users, sessions>>

\* the body of a calculator handler after parseFloat
Handle(numbers, value) ==
  IF \E x \in numbers : isNaN(x) THEN Answer(400) ELSE AnswerResult(value)

\* the head of a premium calculator handler
HandlePremium(calculatorType, numbers, value) ==
  IF ~isAuthenticated THEN Answer(401)
  ELSE IF ~hasAccessToCalculator(user.id, calculatorType) THEN Answer(403)
  ELSE Handle(numbers, value)

Request(route) == args.fn = route /\ reply = 0

SipHandler(monthlyInvestment, returnRate, timePeriod) ==
  Handle({monthlyInvestment, returnRate, timePeriod},
         calculateSip(monthlyInvestment, returnRate, timePeriod, "monthly", clock))

SwpHandler(initialInvestment, monthlyWithdrawal, returnRate, timePeriod) ==
  Handle({initialInvestment, monthlyWithdrawal, returnRate, timePeriod},
         calculateSwp(initialInvestment, monthlyWithdrawal, returnRate, timePeriod, clock))

EmiHandler(principal, rate, tenure) ==
  Handle({principal, rate, tenure}, calculateEmi(principal, rate, tenure))

ScheduleHandler(principal, rate, tenure) ==
  Handle({principal, rate, tenure}, generateAmortizationSchedule(principal, rate, tenure))

LumpsumHandler(investmentAmount, returnRate, timePeriod) ==
  HandlePremium("lumpsum", {investmentAmount, returnRate, timePeriod},
                calculateLumpsum(investmentAmount, returnRate, timePeriod, clock))

SipTopUpHandler(initialInvestment, annualIncrease, returnRate, timePeriod, frequency) ==
  HandlePremium("sip-topup", {initialInvestment, annualIncrease, returnRate, timePeriod},
                calculateSipTopUp(initialInvestment, annualIncrease, returnRate, timePeriod,
                                  frequency, clock))

GetSip ==
  /\ Request("GET /api/calculators/sip")
  /\ SipHandler(parseFloat(args.amount), parseFloat(args.rate), parseFloat(args.years))
GetSwp ==
  /\ Request("GET /api/calculators/swp")
  /\ SwpHandler(parseFloat(args.amount), parseFloat(args.extra), parseFloat(args.rate),
                parseFloat(args.years))
GetEmi ==
  /\ Request("GET /api/calculators/emi")
  /\ EmiHandler(parseFloat(args.amount), parseFloat(args.rate), parseFloat(args.years))
GetSchedule ==
  /\ Request("GET /api/calculators/emi/schedule")
  /\ ScheduleHandler(parseFloat(args.amount), parseFloat(args.rate), parseFloat(args.years))
GetLumpsum ==
  /\ Request("GET /api/calculators/lumpsum")
  /\ LumpsumHandler(parseFloat(args.amount), parseFloat(args.rate), parseFloat(args.years))
GetSipTopUp ==
  /\ Request("GET /api/calculators/sip-topup")
  /\ SipTopUpHandler(parseFloat(args.amount), parseFloat(args.extra), parseFloat(args.rate),
                     parseFloat(args.years),
                     IF args.frequency = "" THEN "monthly" ELSE args.frequency)

\* the query strings of the requests: numbers, text, nothing, a number with
\* text after it, an infinity
QueryAmounts ==
  {<<"1", "0", "0", "0">>, <<"-", "1", "0", "0", "0">>, <<"a", "b", "c">>, <<>>,
   <<"0", ".", "5">>, <<"I", "n", "f", "i", "n", "i", "t", "y">>}
QueryRates == {<<"1", "2">>, <<"0">>, <<"x">>}
\* the years a request asks for end the yearly loops; a request for
\* infinitely many years is followed inside the loop under SpecLoop
QueryYears == {<<"1">>, <<"2">>, <<"0">>, <<"-", "1">>, <<"1", "y">>}
FreeRoutes ==
  {"GET /api/calculators/sip", "GET /api/calculators/swp", "GET /api/calculators/emi",
   "GET /api/calculators/emi/schedule"}
PremiumRoutes == {"GET /api/calculators/lumpsum", "GET /api/calculators/sip-topup"}
ExtraOf(route) ==
  IF route = "GET /api/calculators/swp" THEN {<<"5", "0">>, <<>>}
  ELSE IF route = "GET /api/calculators/sip-topup" THEN {<<"1", "0">>, <<"0">>}
  ELSE {<<>>}
FrequencyOf(route) ==
  IF route = "GET /api/calculators/sip-topup" THEN {"", "quarterly"} ELSE {""}
Requests ==
  UNION {{Args(route, a, x, r, y, f) :
            a \in QueryAmounts, x \in ExtraOf(route), r \in QueryRates, y \in QueryYears,
            f \in FrequencyOf(route)} : route \in FreeRoutes \cup PremiumRoutes}
Sessions ==
  {NoUser, [id |-> 1, hasPremiumAccess |-> FALSE], [id |-> 2, hasPremiumAccess |-> TRUE]}

InitServer ==
  /\ args \in Requests
  /\ user \in Sessions
  /\ clock = FirstYear
  /\ res = NoResult
  /\ prev = NoResult
  /\ calls = 0
  /\ reply = 0
  /\ loop = Idle
  /\ users = SeedUsers
  /\ sessions = NoSessions
NextServer == GetSip \/ GetSwp \/ GetEmi \/ GetSchedule \/ GetLumpsum \/ GetSipTopUp
SpecServer == InitServer /\ [][NextServer]_vars

(***************************************************************************)
(* A call followed through the yearly loop of its projector,               *)
(*   for (let year = 1; year <= timePeriod; year++) { ... push ... }       *)
(* one test and one pass of the body at a time.  loop.year and             *)
(* loop.entries count up to LoopCap and stay there: the years of the model *)
(* that are finite end the loop before the cap.                            *)
(***************************************************************************)
LoopCap == MaxYears + 2
LoopProjectors == {"sip", "lumpsum", "topup", "schedule"}
LoopInputs ==
  {Args(fn, a, FromInt(10), r, y, "monthly") :
     fn \in LoopProjectors, a \in {FromInt(1000), Dyadic(1, -1)},
     r \in {FromInt(12), FromInt(0)},
     y \in Horizons \cup {FromInt(0 - 1), Inf(0), Inf(1)}}

\* what the call returns once the loop is left
LoopResult ==
  IF args.fn = "sip"
  THEN calculateSip(args.amount, args.rate, args.years, args.frequency, clock)
  ELSE IF args.fn = "lumpsum"
  THEN calculateLumpsum(args.amount, args.rate, args.years, clock)
  ELSE IF args.fn = "topup"
  THEN calculateSipTopUp(args.amount, args.extra, args.rate, args.years, args.frequency,
                         clock)
  ELSE generateAmortizationSchedule(args.amount, args.rate, args.years)

\* year <= timePeriod, for a whole number year
YearWithin(year, timePeriod) ==
  IF IsNaN(timePeriod) THEN FALSE
  ELSE IF IsInf(timePeriod) THEN timePeriod.s = 0
  ELSE year <= LoopYears(timePeriod)

\* the call enters the loop: let year = 1
LoopEnter ==
  /\ loop.pc = "idle"
  /\ loop' = [pc |-> "test", year |-> 1, entries |-> 0]
  /\ UNCHANGED <<args, clock, res, prev, calls, user, reply, users, sessions>>

\* year <= timePeriod holds: into the body
LoopTest ==
  /\ loop.pc = "test"
  /\ YearWithin(loop.year, args.years)
  /\ loop' = [loop EXCEPT !.pc = "body"]
  /\ UNCHANGED <<args, clock, res, prev, calls, user, reply, users, sessions>>

\* year <= timePeriod fails: the loop is left
LoopLeave ==
  /\ loop.pc = "test"
  /\ ~YearWithin(loop.year, args.years)
  /\ loop' = [loop EXCEPT !.pc = "done"]
  /\ UNCHANGED <<args, clock, res, prev, calls, user, reply, users, sessions>>

\* the return statement after the loop
LoopReturn ==
  /\ loop.pc = "done"
  /\ loop' = [loop EXCEPT !.pc = "returned"]
  /\ res' = Returned(LoopResult)
  /\ prev' = res
  /\ calls' = calls + 1
  /\ UNCHANGED <<args, clock, user, reply, users, sessions>>

\* yearlyData.push(...); year++
LoopBody ==
  /\ loop.pc = "body"
  /\ loop' = [pc |-> "test", year |-> Min(loop.year + 1, LoopCap),
              entries |-> Min(loop.entries + 1, LoopCap)]
  /\ UNCHANGED <<args, clock, res, prev, calls, user, reply, users, sessions>>

InitLoop == InitWith(LoopInputs)
NextLoop == LoopEnter \/ LoopTest \/ LoopLeave \/ LoopBody \/ LoopReturn
\* a call that has started runs on: the engine takes each step of the loop
\* that it can take
SpecLoop ==
  /\ InitLoop /\ [][NextLoop]_vars
  /\ WF_vars(LoopTest) /\ WF_vars(LoopLeave) /\ WF_vars(LoopBody)

(***************************************************************************)
(* The inflation calculator component calls calculateInflation, which it   *)
(* imports from the finance-calculations module.                           *)
(***************************************************************************)
\* the functions the finance-calculations module exports
Exports ==
  {"calculateSip", "calculateSwp", "calculateEmi", "generateAmortizationSchedule",
   "calculateLumpsum", "calculateSipTopUp", "formatCurrency"}

\* a call that ended in an exception
Threw(error) == [status |-> "threw", value |-> error]

InflationInputs ==
  {Args("inflation", a, Zero(0), r, y, "") : a \in Amounts, r \in Rates, y \in Horizons}
    \cup {Args("inflation", FromInt(1000000), Zero(0), FromInt(7), FromInt(10), "")}

\* InflationCalculator: const results = calculateInflation(amount,
\* inflationRate, timePeriod); the module holds no function of that name to
\* evaluate, so the call of the imported name fails
CallInflation ==
  /\ args.fn = "inflation"
  /\ calls < MaxCalls
  /\ res' = IF "calculateInflation" \in Exports THEN Returned(Unmodelled)
            ELSE Threw("TypeError: calculateInflation is not a function")
  /\ prev' = res
  /\ calls' = calls + 1
  /\ UNCHANGED <<args, clock, user, reply, loop, users, sessions>>

InitInflation == InitWith(InflationInputs)
NextInflation == CallInflation
SpecInflation == InitInflation /\ [][NextInflation]_vars

(***************************************************************************)
(* The account routes of the server.  Each browser has a session; a        *)
(* request comes from a browser with a JSON body, and req.user is the row  *)
(* passport reads back from the users table for the id in the session.     *)
(* args holds the last request, reply and res the answer to it.            *)
(***************************************************************************)
\* a JSON value with the type `typeof` reports for it
JsonBoolean(b) == [type |-> "boolean", text |-> IF b THEN "true" ELSE "false"]
JsonString(s) == [type |-> "string", text |-> s]

\* the well-formed addresses among the strings of the model
IsEmail(text) == text \in {"root@site.io", "ann@site.io", "bob@site.io"}

\* z.object: the keys of the schema are kept, any other key is dropped
ZodStrip(body, keys) == [k \in keys |-> body[k]]

\* registerUserSchema.parse does not throw
registerUserSchema(body) ==
  /\ Len(body.username) >= 3
  /\ IsEmail(body.email)
  /\ Len(body.password) >= 6
  /\ body.password = body.confirmPassword

\* loginUserSchema.parse does not throw
loginUserSchema(body) == Len(body.username) >= 1 /\ Len(body.password) >= 1

\* resetPasswordSchema.parse does not throw
resetPasswordSchema(body) ==
  /\ IsEmail(body.email)
  /\ Len(body.newPassword) >= 6
  /\ body.newPassword = body.confirmNewPassword

\* db.select().from(users).where(...).limit(1) over the matching rows: the first row or NoUser
RowWhere(matching) ==
  IF matching # {} THEN users[CHOOSE i \in matching : \A j \in matching : i <= j] ELSE NoUser

getUserByUsername(username) == RowWhere({i \in DOMAIN users : users[i].username = username})
getUserByEmail(email) == RowWhere({i \in DOMAIN users : users[i].email = email})

\* passport.deserializeUser: storage.getUser(id) for the id of the session
deserializeUser(id) == RowWhere({i \in DOMAIN users : users[i].id = id})

\* storage.createUser: the row the insert returns
createUser(insertUser) ==
  [id |-> Len(users) + 1, username |-> insertUser.username, email |-> insertUser.email,
   password |-> BcryptHash(insertUser.password), role |-> insertUser.role,
   hasPremiumAccess |-> insertUser.hasPremiumAccess, createdAt |-> clock]

updateUserPremiumAccess(userId, hasPremiumAccess) ==
  [i \in DOMAIN users |->
     IF users[i].id = userId THEN [users[i] EXCEPT !.hasPremiumAccess = hasPremiumAccess]
     ELSE users[i]]

updateUserPassword(userId, newPassword) ==
  [i \in DOMAIN users |->
     IF users[i].id = userId THEN [users[i] EXCEPT !.password = newPassword] ELSE users[i]]

verifyPassword(plainTextPassword, hashedPassword) ==
  hashedPassword = BcryptHash(plainTextPassword)

\* const { password, ...userWithoutPassword } = user
WithoutPassword(row) == [k \in (DOMAIN row) \ {"password"} |-> row[k]]

\* const { confirmPassword, ...userToCreate } = userData
WithoutConfirmPassword(userData) ==
  [k \in (DOMAIN userData) \ {"confirmPassword"} |-> userData[k]]

\* req.login(user) and req.logout(): the session of the browser
LoggedIn(browser, id) == [sessions EXCEPT ![browser] = id]

\* the request is answered with the status and the JSON
Respond(request, code, json) ==
  /\ args' = request
  /\ user' = deserializeUser(sessions[request.browser])
  /\ reply' = code
  /\ res' = Returned(json)
  /\ UNCHANGED <<clock, prev, calls, loop>>

\* an answer that changes neither the table nor a session
Refuse(request, code, error) ==
  /\ Respond(request, code, [error |-> error])
  /\ UNCHANGED <<users, sessions>>

\* the middleware isAdmin letting every logged-in user through
isAdminAnyUser(browser) ==
  IF sessions[browser] = 0 THEN 401 ELSE 0

\* the middleware isAdmin: the status it answers with, 0 when it calls next()
isAdmin(browser) ==
  IF sessions[browser] = 0 THEN 401
  ELSE IF deserializeUser(sessions[browser]).role # USER_ROLES.ADMIN THEN 403
  ELSE 0

\* createUser of the parsed body with role and hasPremiumAccess set by the
\* handler, the answer without the password, the browser logged in
RegisterUser(request, created) ==
  /\ users' = Append(users, created)
  /\ sessions' = LoggedIn(request.browser, created.id)
  /\ Respond(request, 201, WithoutPassword(created))

RegisterParsed(request, userData) ==
  IF getUserByUsername(userData.username) # NoUser
  THEN Refuse(request, 400, "Username already exists")
  ELSE IF getUserByEmail(userData.email) # NoUser
  THEN Refuse(request, 400, "Email already exists")
  ELSE RegisterUser(request,
                    createUser([role |-> USER_ROLES.USER, hasPremiumAccess |-> FALSE]
                                 @@ WithoutConfirmPassword(userData)))

\* POST /api/register
PostRegister(request) ==
  /\ request.fn = "POST /api/register"
  /\ IF ~registerUserSchema(request.body) THEN Refuse(request, 400, "ZodError")
     ELSE RegisterParsed(request,
                         ZodStrip(request.body,
                                  {"username", "email", "password", "confirmPassword"}))

\* the LocalStrategy and the callback of passport.authenticate
LoginFound(request, found) ==
  IF found = NoUser THEN Refuse(request, 401, "Incorrect username")
  ELSE IF ~verifyPassword(request.body.password, found.password)
  THEN Refuse(request, 401, "Incorrect password")
  ELSE /\ sessions' = LoggedIn(request.browser, found.id)
       /\ Respond(request, 200, WithoutPassword(found))
       /\ UNCHANGED users

\* POST /api/login
PostLogin(request) ==
  /\ request.fn = "POST /api/login"
  /\ IF ~loginUserSchema(request.body) THEN Refuse(request, 400, "ZodError")
     ELSE LoginFound(request, getUserByUsername(request.body.username))

\* POST /api/logout
PostLogout(request) ==
  /\ request.fn = "POST /api/logout"
  /\ sessions' = LoggedIn(request.browser, 0)
  /\ Respond(request, 200, [message |-> "Logged out successfully"])
  /\ UNCHANGED users

ResetFound(request, found) ==
  IF found = NoUser THEN Refuse(request, 404, "User not found")
  ELSE /\ users' = updateUserPassword(found.id, BcryptHash(request.body.newPassword))
       /\ Respond(request, 200, [message |-> "Password reset successful"])
       /\ UNCHANGED sessions

\* POST /api/reset-password
PostResetPassword(request) ==
  /\ request.fn = "POST /api/reset-password"
  /\ IF ~resetPasswordSchema(request.body) THEN Refuse(request, 400, "ZodError")
     ELSE ResetFound(request, getUserByEmail(request.body.email))

\* GET /api/me
GetMe(request) ==
  /\ request.fn = "GET /api/me"
  /\ IF sessions[request.browser] = 0 THEN Refuse(request, 401, "Not authenticated")
     ELSE /\ Respond(request, 200, deserializeUser(sessions[request.browser]))
          /\ UNCHANGED <<users, sessions>>

\* GET /api/admin/users
GetAdminUsers(request) ==
  /\ request.fn = "GET /api/admin/users"
  /\ IF isAdmin(request.browser) # 0
     THEN Refuse(request, isAdmin(request.browser), "Unauthorized")
     ELSE /\ Respond(request, 200, [i \in DOMAIN users |-> WithoutPassword(users[i])])
          /\ UNCHANGED <<users, sessions>>

PremiumUpdated(request, found) ==
  IF found = NoUser THEN Refuse(request, 404, "User not found")
  ELSE /\ users' = updateUserPremiumAccess(request.id,
                                           request.body.hasPremiumAccess.text = "true")
       /\ Respond(request, 200,
                  WithoutPassword([found EXCEPT !.hasPremiumAccess =
                                     request.body.hasPremiumAccess.text = "true"]))
       /\ UNCHANGED sessions

\* PATCH /api/admin/users/:id/premium
PatchPremium(request) ==
  /\ request.fn = "PATCH /api/admin/users/:id/premium"
  /\ IF isAdmin(request.browser) # 0
     THEN Refuse(request, isAdmin(request.browser), "Unauthorized")
     ELSE IF request.body.hasPremiumAccess.type # "boolean"
     THEN Refuse(request, 400, "hasPremiumAccess must be a boolean")
     ELSE PremiumUpdated(request, deserializeUser(request.id))

\* the bodies the browsers send: well-formed and not, with and without the
\* fields role and hasPremiumAccess
RegisterBodies ==
  {[username |-> u, email |-> e, password |-> p, confirmPassword |-> "secret1"] :
     u \in {"ann", "al"}, e \in {"ann@site.io", "ann.site.io"}, p \in {"secret1", "short"}}
    \cup {[username |-> "bob", email |-> e, password |-> "secret1",
           confirmPassword |-> "secret1", role |-> USER_ROLES.ADMIN,
           hasPremiumAccess |-> TRUE] : e \in {"bob@site.io", "ann@site.io"}}
LoginBodies ==
  {[username |-> u, password |-> p] :
     u \in {"root", "ann", ""}, p \in {"rootpass", "secret1"}}
    \cup {[username |-> "ann", password |-> "secret2"]}
    \cup {[username |-> "bob", password |-> "secret1", role |-> USER_ROLES.ADMIN,
           hasPremiumAccess |-> TRUE]}
ResetBodies ==
  {[email |-> e, newPassword |-> p, confirmNewPassword |-> "secret2"] :
     e \in {"ann@site.io", "bob@site.io"}, p \in {"secret2", "short"}}
    \cup {[email |-> "ann@site.io", newPassword |-> "secret2",
           confirmNewPassword |-> "secret2", role |-> USER_ROLES.ADMIN,
           hasPremiumAccess |-> TRUE]}
PremiumBodies ==
  {[hasPremiumAccess |-> v] : v \in {JsonBoolean(TRUE), JsonBoolean(FALSE), JsonString("true")}}

RegisterRequests ==
  {[fn |-> "POST /api/register", browser |-> b, body |-> body] :
     b \in Browsers, body \in RegisterBodies}
LoginRequests ==
  {[fn |-> "POST /api/login", browser |-> b, body |-> body] :
     b \in Browsers, body \in LoginBodies}
ResetRequests ==
  {[fn |-> "POST /api/reset-password", browser |-> b, body |-> body] :
     b \in Browsers, body \in ResetBodies}
PremiumRequests ==
  {[fn |-> "PATCH /api/admin/users/:id/premium", browser |-> b, id |-> id, body |-> body] :
     b \in Browsers, id \in {2, 3}, body \in PremiumBodies}
RequestsOf(route) == {[fn |-> route, browser |-> b] : b \in Browsers}

NoRequest == [fn |-> "", browser |-> "b1"]

InitAccounts ==
  /\ args = NoRequest
  /\ clock = FirstYear
  /\ res = NoResult
  /\ prev = NoResult
  /\ calls = 0
  /\ user = NoUser
  /\ reply = 0
  /\ loop = Idle
  /\ users = SeedUsers
  /\ sessions = NoSessions
Register == \E request \in RegisterRequests : PostRegister(request)
Login == \E request \in LoginRequests : PostLogin(request)
Logout == \E request \in RequestsOf("POST /api/logout") : PostLogout(request)
ResetPassword == \E request \in ResetRequests : PostResetPassword(request)
Me == \E request \in RequestsOf("GET /api/me") : GetMe(request)
AdminUsers == \E request \in RequestsOf("GET /api/admin/users") : GetAdminUsers(request)
Premium == \E request \in PremiumRequests : PatchPremium(request)
NextAccounts ==
  Register \/ Login \/ Logout \/ ResetPassword \/ Me \/ AdminUsers \/ Premium
SpecAccounts == InitAccounts /\ [][NextAccounts]_vars

(***************************************************************************)
(* Properties of calculateSip, checked under SpecSip.                      *)
(***************************************************************************)
FiveFrequencies == {"daily", "weekly", "monthly", "quarterly", "yearly"}

SipReturned == args.fn = "sip" /\ res.status = "returned"

\* amount >= 0, rate > 0, a positive whole number of years, one of the five
\* frequencies
SipValidInput ==
  /\ FLe(Zero(0), args.amount)
  /\ FLt(Zero(0), args.rate)
  /\ FLe(One, args.years) /\ IsInteger(args.years)
  /\ args.frequency \in FiveFrequencies

SipReturnsAddUp ==
  FEq(res.value.estimatedReturns, FSub(res.value.totalValue, res.value.investedAmount))

\* C1 as stated: for every valid input (amount >= 0, rate > 0, positive
\* integer years, one of the five frequencies) calculateSip reports
\* estimatedReturns = totalValue - investedAmount on the rounded fields.
C1_ReturnsAddUp == (SipReturned /\ SipValidInput) => SipReturnsAddUp

\* C1 amended: the same for an amount that is a whole number of currency
\* units (the three fields are rounded independently, so a fractional amount
\* breaks the identity).
C1_ReturnsAddUpWholeAmount ==
  (SipReturned /\ SipValidInput /\ IsInteger(args.amount)) => SipReturnsAddUp

\* a valid call with a whole positive amount has returned a gain
C1_Witness ==
  /\ SipReturned /\ SipValidInput /\ IsInteger(args.amount)
  /\ FLt(Zero(0), args.amount)
  /\ FLt(Zero(0), res.value.estimatedReturns)

\* no field of a record calculateSip returned is NaN or an infinity
SipAllFinite ==
  /\ IsFinite(res.value.investedAmount)
  /\ IsFinite(res.value.estimatedReturns)
  /\ IsFinite(res.value.totalValue)
  /\ \A i \in DOMAIN res.value.yearlyData :
       /\ IsFinite(res.value.yearlyData[i].investedAmount)
       /\ IsFinite(res.value.yearlyData[i].balance)

\* C5: with an annual rate of exactly 0 calculateSip is linear: totalValue =
\* contribution * years * periodsPerYear, estimatedReturns = 0, every yearly
\* balance is the amount invested to date, and no field is NaN or infinite.
C5_ZeroRateLinear ==
  (/\ SipReturned /\ IsZero(args.rate)
   /\ FLe(Zero(0), args.amount) /\ FLe(One, args.years)
   /\ args.frequency \in FiveFrequencies)
  => /\ SipAllFinite
     /\ FEq(res.value.totalValue,
            MathRound(FMul(args.amount,
                           FMul(args.years, FromInt(PeriodsPerYear(args.frequency))))))
     /\ FEq(res.value.estimatedReturns, Zero(0))
     /\ \A i \in DOMAIN res.value.yearlyData :
          FEq(res.value.yearlyData[i].balance,
              MathRound(res.value.yearlyData[i].investedAmount))

SipConcreteCase ==
  /\ SipReturned
  /\ args.amount = FromInt(5000) /\ args.rate = Twelve /\ args.years = One
  /\ args.frequency = "monthly"

\* C9 as stated: calculateSip(5000, 12, 1, "monthly") uses 12 periods at
\* periodic rate 0.01 and returns investedAmount = 60000, totalValue = 63412.
C9_ConcreteSip ==
  SipConcreteCase
  => /\ PeriodsPerYear(args.frequency) = 12
     /\ PeriodicRate(args.rate, args.frequency) = FDiv(One, Hundred)
     /\ res.value.investedAmount = FromInt(60000)
     /\ res.value.totalValue = FromInt(63412)

\* C9 amended: the same call returns investedAmount = 60000 and totalValue =
\* 64047, the rounded value of 5000 * ((1.01^12 - 1) / 0.01) * 1.01.
C9_ConcreteSipAnnuityDue ==
  SipConcreteCase
  => /\ PeriodsPerYear(args.frequency) = 12
     /\ PeriodicRate(args.rate, args.frequency) = FDiv(One, Hundred)
     /\ res.value.investedAmount = FromInt(60000)
     /\ res.value.totalValue = FromInt(64047)

\* the concrete call has returned, with one yearly entry
C9_Witness == SipConcreteCase /\ Len(res.value.yearlyData) = 1

(***************************************************************************)
(* Properties of calculateSwp, checked under SpecSwp.                      *)
(***************************************************************************)
SwpReturned == args.fn = "swp" /\ res.status = "returned"

\* C2: yearlyData of calculateSwp has at most `years` entries, and whenever
\* it has fewer the returned finalBalance is 0.
C2_EarlyEndMeansEmpty ==
  SwpReturned
  => /\ FLe(FromInt(Len(res.value.yearlyData)), args.years)
     /\ (FLt(FromInt(Len(res.value.yearlyData)), args.years)
           => FEq(res.value.finalBalance, Zero(0)))

\* a plan over two years or more that ran dry in an earlier year, after
\* paying out
C2_Witness ==
  /\ SwpReturned
  /\ Len(res.value.yearlyData) >= 1
  /\ FLt(FromInt(Len(res.value.yearlyData)), args.years)
  /\ FLt(Zero(0), args.amount)
  /\ FLt(Zero(0), res.value.totalWithdrawal)

(***************************************************************************)
(* Properties of calculateEmi and generateAmortizationSchedule, checked    *)
(* under SpecEmi.                                                          *)
(***************************************************************************)
EmiReturned == args.fn = "emi" /\ res.status = "returned"
ScheduleReturned == args.fn = "schedule" /\ res.status = "returned"

\* positive principal, annual rate > 0, a positive whole tenure
LoanValidInput ==
  /\ FLt(Zero(0), args.amount)
  /\ FLt(Zero(0), args.rate)
  /\ FLe(One, args.years) /\ IsInteger(args.years)

Abs(x) == [x EXCEPT !.s = 0]

\* the totals of the yearly principal and interest figures of a schedule
SchedulePrincipal(yearlyData) ==
  FromInt(Sum([i \in DOMAIN yearlyData |-> ToInt(yearlyData[i].principal)]))

ScheduleInterest(yearlyData) ==
  FromInt(Sum([i \in DOMAIN yearlyData |-> ToInt(yearlyData[i].interest)]))

\* half a currency unit for each of n rounded figures
RoundingOf(n) == Dyadic(n, -1)

\* C3: for positive principal P, rate > 0 and a positive whole tenure the
\* principal portions of the schedule sum to P and the last entry reports
\* balance 0, and the interest portions plus P sum to the totalPayment of
\* calculateEmi, each within the rounding of the reported figures (the
\* yearly figures and, respectively, the last balance and totalPayment).
C3_ScheduleAddsUp ==
  (ScheduleReturned /\ LoanValidInput)
  => /\ FromInt(Len(res.value)) = args.years
     /\ FEq(res.value[Len(res.value)].balance, Zero(0))
     /\ FLe(Abs(FSub(SchedulePrincipal(res.value), args.amount)),
            RoundingOf(Len(res.value) + 1))
     /\ FLe(Abs(FSub(FAdd(ScheduleInterest(res.value), args.amount),
                     calculateEmi(args.amount, args.rate, args.years).totalPayment)),
            RoundingOf(Len(res.value) + 1))

\* no field of a record calculateEmi returned is NaN or an infinity
EmiAllFinite ==
  /\ IsFinite(res.value.emi)
  /\ IsFinite(res.value.totalInterest)
  /\ IsFinite(res.value.totalPayment)

\* C6: with an annual rate of exactly 0 calculateEmi returns emi = P / m for
\* m = tenure * 12, totalPayment = P and totalInterest = 0, and the schedule
\* has zero interest and a balance falling linearly to 0; no field is NaN or
\* infinite.
C6_ZeroRateLoan ==
  /\ (EmiReturned /\ IsZero(args.rate) /\ FLt(Zero(0), args.amount) /\ FLe(One, args.years))
     => /\ EmiAllFinite
        /\ FEq(res.value.emi, MathRound(FDiv(args.amount, FMul(args.years, Twelve))))
        /\ FEq(res.value.totalPayment, MathRound(args.amount))
        /\ FEq(res.value.totalInterest, Zero(0))
  /\ (ScheduleReturned /\ IsZero(args.rate) /\ FLt(Zero(0), args.amount)
        /\ FLe(One, args.years))
     => \A i \in DOMAIN res.value :
          /\ FEq(res.value[i].interest, Zero(0))
          /\ FEq(res.value[i].balance,
                 MathRound(FSub(args.amount,
                                FMul(FDiv(args.amount, args.years), FromInt(i)))))

EmiConcreteCase ==
  /\ EmiReturned
  /\ args.amount = FromInt(1000000) /\ args.rate = Dyadic(17, -1)
  /\ args.years = FromInt(20)

\* C10 as stated: calculateEmi(1000000, 8.5, 20) returns emi = 8678,
\* totalPayment = 2082720 (the reported emi times 240) and totalInterest =
\* 1082720 (that totalPayment less the principal).
C10_ConcreteEmi ==
  EmiConcreteCase
  => /\ res.value.emi = FromInt(8678)
     /\ res.value.totalPayment = FromInt(2082720)
     /\ res.value.totalPayment = FMul(res.value.emi, FromInt(240))
     /\ res.value.totalInterest = FromInt(1082720)
     /\ res.value.totalInterest = FSub(res.value.totalPayment, args.amount)

\* C10 amended: the same call returns emi = 8678, totalPayment = 2082776 (the
\* unrounded instalment times 240, then rounded) and totalInterest = 1082776
\* (that totalPayment less the principal).
C10_ConcreteEmiUnrounded ==
  EmiConcreteCase
  => /\ res.value.emi = FromInt(8678)
     /\ res.value.totalPayment = FromInt(2082776)
     /\ res.value.totalInterest = FromInt(1082776)
     /\ res.value.totalInterest = FSub(res.value.totalPayment, args.amount)

\* the concrete call has returned an instalment
C10_Witness == EmiConcreteCase /\ FLt(Zero(0), res.value.emi)

(***************************************************************************)
(* Properties of calculateLumpsum, checked under SpecLumpsum.              *)
(***************************************************************************)
LumpsumReturned == args.fn = "lumpsum" /\ res.status = "returned"

\* round(P * (1 + rate / 100)^n)
LumpsumAfter(n) ==
  MathRound(FMul(args.amount,
                 MathPow(FAdd(One, FDiv(args.rate, Hundred)), FromInt(n))))

\* C8: for calculateLumpsum with amount P, rate and whole years N,
\* yearlyData has exactly N entries, the entry for year i + 1 has balance
\* round(P * (1 + rate / 100)^(i + 1)), and the balance of the last entry is
\* the returned totalValue.
C8_LumpsumYearly ==
  LumpsumReturned
  => /\ FromInt(Len(res.value.yearlyData)) = args.years
     /\ \A i \in 0..(Len(res.value.yearlyData) - 1) :
          /\ res.value.yearlyData[i + 1].year = i + 1
          /\ res.value.yearlyData[i + 1].balance = LumpsumAfter(i + 1)
     /\ (res.value.yearlyData # <<>>
           => res.value.yearlyData[Len(res.value.yearlyData)].balance
                = res.value.totalValue)

\* a lump sum has grown over two years or more: the balances of its first and
\* last year differ
C8_Witness ==
  /\ LumpsumReturned
  /\ Len(res.value.yearlyData) >= 2
  /\ FLt(res.value.yearlyData[1].balance,
         res.value.yearlyData[Len(res.value.yearlyData)].balance)

(***************************************************************************)
(* Properties of all the projectors, checked under Spec.                   *)
(***************************************************************************)
\* C4: two calls of a projector with identical arguments return identical
\* records in every field, the yearLabel of every yearly entry included,
\* whenever the two calls are made.
C4_SameArgumentsSameResult ==
  (res.status = "returned" /\ prev.status = "returned") => res = prev

\* the yearly entries of a returned record, whichever projector returned it
YearlyDataOf(value) == IF args.fn = "schedule" THEN value ELSE value.yearlyData

\* the numbers a returned record reports outside its yearly entries
TotalsOf(value) ==
  IF args.fn = "schedule" THEN {}
  ELSE IF args.fn = "emi" THEN {value.emi, value.totalInterest, value.totalPayment}
  ELSE IF args.fn = "swp"
       THEN {value.finalBalance, value.totalWithdrawal, value.yearlyWithdrawal}
  ELSE {value.investedAmount, value.estimatedReturns, value.totalValue}

\* the numbers a yearly entry reports
EntryNumbers(entry) ==
  IF args.fn = "schedule" THEN {entry.principal, entry.interest, entry.balance}
  ELSE IF args.fn = "swp" THEN {entry.withdrawalAmount, entry.balance}
  ELSE {entry.investedAmount, entry.balance}

AllFinite(value) ==
  /\ \A x \in TotalsOf(value) : IsFinite(x)
  /\ args.fn # "emi"
       => \A i \in DOMAIN YearlyDataOf(value) :
            \A x \in EntryNumbers(YearlyDataOf(value)[i]) : IsFinite(x)

\* C7: a projector given a negative amount, zero or negative years, or inputs
\* whose result would not be finite signals failure and returns no record;
\* so no returned record holds NaN or an infinity in any field.
C7_InvalidInputRejected ==
  res.status = "returned"
  => /\ FLe(Zero(0), args.amount)
     /\ FLe(One, args.years)
     /\ AllFinite(res.value)

(***************************************************************************)
(* The months of calculateSwp, replayed one by one.                        *)
(***************************************************************************)
SwpConcreteCase ==
  args = Args("swp", FromInt(1000000), FromInt(50000), FromInt(8), FromInt(5), "")

SwpMonthlyRate == FDiv(FDiv(args.rate, Twelve), Hundred)

\* the month loop's state at the start of simulated month k (counted from 0
\* over the whole plan) with the given balance
SwpAtMonth(balance, k) ==
  [yearEndBalance |-> balance, thisYearWithdrawal |-> Zero(0),
   totalWithdrawal |-> Zero(0), month |-> (k % 12) + 1, brk |-> FALSE]

\* TRUE when no month follows month k, which left state m: the month broke
\* out, or it closed a year on an empty balance, or it closed the last year
SwpLastMonth(m, k, years) ==
  \/ m.brk
  \/ k % 12 = 11 /\ (FLe(m.yearEndBalance, Zero(0)) \/ k + 1 >= 12 * years)

\* the balances after each simulated month, from month k on
RECURSIVE SwpBalancesFrom(_, _, _)
SwpBalancesFrom(m, k, years) ==
  IF SwpLastMonth(m, k, years) THEN <<m.yearEndBalance>>
  ELSE <<m.yearEndBalance>>
         \o SwpBalancesFrom(SwpMonth(SwpAtMonth(m.yearEndBalance, k + 1),
                                     SwpMonthlyRate, args.extra),
                            k + 1, years)

SwpBalances ==
  IF LoopYears(args.years) = 0 THEN <<>>
  ELSE SwpBalancesFrom(SwpMonth(SwpAtMonth(args.amount, 0), SwpMonthlyRate, args.extra),
                       0, LoopYears(args.years))

NonIncreasing(first, balances) ==
  \A i \in DOMAIN balances :
    FLe(balances[i], IF i = 1 THEN first ELSE balances[i - 1])

\* C11: calculateSwp(1000000, 50000, 8, 5) ends early: finalBalance is 0,
\* yearlyData has fewer than 5 entries, and the balance after each simulated
\* month is never greater than the balance after the month before.
C11_UnsustainablePlanEndsEarly ==
  (SwpReturned /\ SwpConcreteCase)
  => /\ FEq(res.value.finalBalance, Zero(0))
     /\ Len(res.value.yearlyData) < 5
     /\ NonIncreasing(args.amount, SwpBalances)

\* the concrete plan has returned after paying out in more than one year
C11_Witness ==
  /\ SwpReturned /\ SwpConcreteCase
  /\ Len(res.value.yearlyData) >= 2
  /\ Len(SwpBalances) > 12
  /\ FLt(Zero(0), res.value.totalWithdrawal)

\* C12: every monetary field of every result record is an integer, for any
\* numeric inputs: the summary fields and the monetary fields of every
\* yearly entry.
C12_MoneyIsWhole ==
  res.status = "returned"
  => /\ \A x \in TotalsOf(res.value) : IsInteger(x)
     /\ args.fn # "emi"
          => \A i \in DOMAIN YearlyDataOf(res.value) :
               \A x \in EntryNumbers(YearlyDataOf(res.value)[i]) : IsInteger(x)

(***************************************************************************)
(* Properties of the calculator routes, checked under SpecServer.          *)
(***************************************************************************)
Answered == reply # 0

\* C13: the premium calculators are gated: the lumpsum and sip-topup routes
\* answer with a result only to an authenticated user whose hasPremiumAccess
\* is true, answer 401 without a session and 403 to a user without premium
\* access, for whom hasAccessToCalculator is false.
C13_PremiumGate ==
  (Answered /\ args.fn \in PremiumRoutes)
  => /\ reply = 200 => (isAuthenticated /\ user.hasPremiumAccess)
     /\ ~isAuthenticated => reply = 401
     /\ (isAuthenticated /\ ~user.hasPremiumAccess)
          => /\ reply = 403
             /\ ~hasAccessToCalculator(user.id, "lumpsum")
             /\ ~hasAccessToCalculator(user.id, "sip-topup")

\* the numbers of the query the route reads
QueryNumbers ==
  {parseFloat(args.amount), parseFloat(args.rate), parseFloat(args.years)}
    \cup (IF args.fn \in {"GET /api/calculators/swp", "GET /api/calculators/sip-topup"}
          THEN {parseFloat(args.extra)} ELSE {})

\* a negative amount, zero or negative years, or a value that is not finite
OutOfRange ==
  \/ \E x \in QueryNumbers : ~IsFinite(x)
  \/ FLt(parseFloat(args.amount), Zero(0))
  \/ FLe(parseFloat(args.years), Zero(0))

\* C14: whenever a query parameter is not a number or is out of range the
\* handler answers 400 and the projector is not invoked.
C14_OnlyValidatedCalls ==
  (Answered /\ reply \notin {401, 403} /\ OutOfRange) => (reply = 400 /\ calls = 0)

(***************************************************************************)
(* Termination of the yearly loops, checked under SpecLoop.                *)
(***************************************************************************)
\* C15: every projector call whose arguments are all numbers, an infinity
\* and arbitrarily many years included, eventually ends: a call that has
\* entered its loop leaves it.
C15_EveryCallEnds == (loop.pc = "test") ~> (loop.pc \in {"done", "returned"})

(***************************************************************************)
(* Properties of the inflation calculator, checked under SpecInflation.    *)
(***************************************************************************)
\* amount * (1 + rate/100)^year
InflatedValue(year) ==
  FMul(args.amount, MathPow(FAdd(One, FDiv(args.rate, Hundred)), FromInt(year)))

\* C16: the engine provides an inflation projector: for amount, rate and
\* whole years N it returns N yearly entries, entry `year` with
\* originalValue = amount and inflatedValue = amount*(1+rate/100)^year,
\* futureValue the inflated value at year N and inflationImpact =
\* futureValue - amount.
C16_InflationProjector ==
  (args.fn = "inflation" /\ calls > 0)
  => /\ res.status = "returned"
     /\ Len(res.value.yearlyData) = LoopYears(args.years)
     /\ \A i \in DOMAIN res.value.yearlyData :
          /\ res.value.yearlyData[i].year = i
          /\ res.value.yearlyData[i].originalValue = args.amount
          /\ res.value.yearlyData[i].inflatedValue = InflatedValue(i)
     /\ res.value.futureValue = InflatedValue(LoopYears(args.years))
     /\ res.value.inflationImpact = FSub(res.value.futureValue, args.amount)

(***************************************************************************)
(* Properties of calculateSipTopUp, checked under SpecTopUp.               *)
(***************************************************************************)
TopUpReturned == args.fn = "topup" /\ res.status = "returned"

\* rate > 0, a positive whole number of years, one of the five frequencies
TopUpValidInput ==
  /\ FLt(Zero(0), args.rate)
  /\ FLe(One, args.years) /\ IsInteger(args.years)
  /\ args.frequency \in FiveFrequencies

\* the plan without the yearly increase, as calculateSip sees it
SameSip == calculateSip(args.amount, args.rate, args.years, args.frequency, clock)

SameAsSip(sip) ==
  /\ FEq(res.value.investedAmount, sip.investedAmount)
  /\ FEq(res.value.totalValue, sip.totalValue)
  /\ Len(res.value.yearlyData) = Len(sip.yearlyData)
  /\ \A i \in DOMAIN sip.yearlyData :
       FEq(res.value.yearlyData[i].balance, sip.yearlyData[i].balance)

\* C17: with annualIncreasePercentage = 0 calculateSipTopUp is the same plan
\* as calculateSip: for every contribution, rate > 0, positive whole years
\* and frequency both return the same investedAmount and totalValue and the
\* same balance in every yearly entry.
C17_NoIncreaseIsSip ==
  (TopUpReturned /\ TopUpValidInput /\ IsZero(args.extra)) => SameAsSip(SameSip)

\* 1 + r for the periodic rate r of the plan
TopUpGrowth == FAdd(One, PeriodicRate(args.rate, args.frequency))

\* n periods: each adds the contribution c and multiplies the total by 1 + r
RECURSIVE PeriodsAdded(_, _, _, _), PeriodsAddedOn(_, _, _, _)
PeriodsAdded(v, n, c, growth) ==
  IF n = 0 THEN v
  ELSE IF n = 1 THEN FMul(FAdd(v, c), growth)
  ELSE PeriodsAddedOn(PeriodsAdded(v, n \div 2, c, growth), n - n \div 2, c, growth)

PeriodsAddedOn(left, n, c, growth) ==
  IF left = left THEN PeriodsAdded(left, n, c, growth) ELSE left

\* the running values after the years y..n, the value before year y being v
\* and the contribution of year y being c: a year first grows the balance by
\* (1+r)^periodsPerYear, then adds its periods; the next year's contribution
\* is this year's raised by the fraction g
RECURSIVE RunningValuesFrom(_, _, _, _, _, _, _), RunningValuesOn(_, _, _, _, _, _, _)
RunningValuesFrom(v, c, y, n, growth, ppy, g) ==
  IF y > n THEN <<>>
  ELSE RunningValuesOn(PeriodsAdded(FMul(v, MathPow(growth, FromInt(ppy))), ppy, c, growth),
                       c, y, n, growth, ppy, g)

RunningValuesOn(after, c, y, n, growth, ppy, g) ==
  <<after>> \o RunningValuesFrom(after, FAdd(c, FMul(c, g)), y + 1, n, growth, ppy, g)

RunningValues ==
  RunningValuesFrom(Zero(0), args.amount, 1, LoopYears(args.years), TopUpGrowth,
                    PeriodsPerYear(args.frequency), FDiv(args.extra, Hundred))

RunningValuesReported(values) ==
  /\ Len(res.value.yearlyData) = Len(values)
  /\ \A i \in DOMAIN values : res.value.yearlyData[i].balance = MathRound(values[i])
  /\ res.value.totalValue
       = MathRound(IF values = <<>> THEN Zero(0) ELSE values[Len(values)])

\* C18: calculateSipTopUp keeps one running value: each year it first
\* multiplies the balance by (1+r)^periodsPerYear and then, for each period,
\* adds the year's contribution and multiplies the total by (1+r); a yearly
\* entry's balance is the rounded running value after its year and totalValue
\* the rounded value after the last year.
C18_RunningValue ==
  TopUpReturned
  => /\ Len(res.value.yearlyData) = LoopYears(args.years)
     /\ RunningValuesReported(RunningValues)

\* a plan of two years or more at a rate above zero whose balance grew
C18_Witness ==
  /\ TopUpReturned
  /\ Len(res.value.yearlyData) >= 2
  /\ FLt(Zero(0), args.rate) /\ FLt(Zero(0), args.amount)
  /\ FLt(res.value.yearlyData[1].balance, res.value.yearlyData[2].balance)

\* start * (1 + g/100)^(y-1): the contribution of year y in closed form
ClosedContribution(y) ==
  FMul(args.amount, MathPow(FAdd(One, FDiv(args.extra, Hundred)), FromInt(y - 1)))

\* periodsPerYear * the sum of the contributions of the years 1..y
RECURSIVE ClosedInvested(_)
ClosedInvested(y) ==
  IF y = 0 THEN Zero(0)
  ELSE FAdd(ClosedInvested(y - 1),
            FMul(FromInt(PeriodsPerYear(args.frequency)), ClosedContribution(y)))

GrownThenWithdrawn(balance, growth) == FSub(FMul(balance, growth), args.extra)

\* the months simulated from month k on (k counted from 0) and the balance
\* they end on: a month that would leave less than zero is the last and
\* leaves 0; a year that closes on no balance, or the last year, ends the plan
RECURSIVE MonthsFrom(_, _, _, _)
MonthsFrom(after, k, years, growth) ==
  IF FLt(after, Zero(0)) THEN [months |-> k + 1, balance |-> Zero(0)]
  ELSE IF k % 12 = 11 /\ (FLe(after, Zero(0)) \/ k + 1 >= 12 * years)
       THEN [months |-> k + 1, balance |-> after]
  ELSE MonthsFrom(GrownThenWithdrawn(after, growth), k + 1, years, growth)

MonthsSimulated ==
  IF LoopYears(args.years) = 0 THEN [months |-> 0, balance |-> args.amount]
  ELSE MonthsFrom(GrownThenWithdrawn(args.amount, FAdd(One, SwpMonthlyRate)), 0,
                  LoopYears(args.years), FAdd(One, SwpMonthlyRate))

\* what calculateSwp reports for a plan of these months
MonthsReported(sim) ==
  /\ res.value.totalWithdrawal = MathRound(FMul(args.extra, FromInt(sim.months)))
  /\ res.value.finalBalance = MathMax(Zero(0), MathRound(sim.balance))
  /\ Len(res.value.yearlyData) = (sim.months + 11) \div 12
  /\ \A i \in DOMAIN res.value.yearlyData :
       res.value.yearlyData[i].withdrawalAmount
         = MathRound(FMul(args.extra, FromInt(Min(12, sim.months - 12 * (i - 1)))))

\* C20: in calculateSwp the month in which the balance would go negative
\* still adds the full monthlyWithdrawal to the year's withdrawalAmount and to
\* totalWithdrawal, the balance is clamped to 0 and no later month of the
\* year is simulated; totalWithdrawal = monthlyWithdrawal * months simulated,
\* each month applying growth before the withdrawal.
C20_FullWithdrawalCounted == SwpReturned => MonthsReported(MonthsSimulated)

\* a plan that ran dry in the middle of a year
C20_Witness ==
  /\ SwpReturned
  /\ FLt(Zero(0), args.amount) /\ FLt(Zero(0), args.extra)
  /\ MonthsSimulated.months % 12 # 0
  /\ MonthsSimulated.months > 1
  /\ FEq(res.value.finalBalance, Zero(0))

(***************************************************************************)
(* The end of a withdrawal plan, checked under SpecSwp.                    *)
(***************************************************************************)
\* C21: a yearly entry of calculateSwp whose reported balance is 0 is the
\* last entry of yearlyData, also when the balance behind it is positive and
\* rounds to 0.
C21_ZeroBalanceIsLast ==
  SwpReturned
  => \A i \in DOMAIN res.value.yearlyData :
       FEq(res.value.yearlyData[i].balance, Zero(0)) => i = Len(res.value.yearlyData)

\* the months simulated from month k on, which begins on the balance `before`
\* and leaves `after`, that begin on a balance of exactly zero
RECURSIVE EmptyStartsAfter(_, _, _, _, _)
EmptyStartsAfter(before, after, k, years, growth) ==
  (IF FEq(before, Zero(0)) THEN 1 ELSE 0)
    + (IF \/ FLt(after, Zero(0))
          \/ k % 12 = 11 /\ (FLe(after, Zero(0)) \/ k + 1 >= 12 * years)
       THEN 0
       ELSE EmptyStartsAfter(after, GrownThenWithdrawn(after, growth), k + 1, years, growth))

EmptyStarts ==
  IF LoopYears(args.years) = 0 THEN 0
  ELSE EmptyStartsAfter(args.amount,
                        GrownThenWithdrawn(args.amount, FAdd(One, SwpMonthlyRate)), 0,
                        LoopYears(args.years), FAdd(One, SwpMonthlyRate))

\* C22: calculateSwp counts no withdrawal for a month that begins on balance
\* 0: for a plan with a positive investment and a positive withdrawal,
\* totalWithdrawal is monthlyWithdrawal times the simulated months that began
\* on a balance other than zero.
C22_NoWithdrawalFromEmpty ==
  (SwpReturned /\ FLt(Zero(0), args.amount) /\ FLt(Zero(0), args.extra))
  => res.value.totalWithdrawal
       = MathRound(FMul(args.extra, FromInt(MonthsSimulated.months - EmptyStarts)))

\* the total of the yearly withdrawal figures of a plan
SwpWithdrawn(yearlyData) ==
  FromInt(Sum([i \in DOMAIN yearlyData |-> ToInt(yearlyData[i].withdrawalAmount)]))

\* C23: for calculateSwp with a whole monthlyWithdrawal >= 0 and years >= 1,
\* totalWithdrawal is the sum of withdrawalAmount over the yearly entries,
\* finalBalance is the balance of the last entry, and finalBalance and every
\* yearly balance are >= 0.
C23_TotalsMatchSeries ==
  (SwpReturned /\ IsInteger(args.extra) /\ FLe(Zero(0), args.extra) /\ FLe(One, args.years))
  => /\ Len(res.value.yearlyData) >= 1
     /\ FEq(res.value.totalWithdrawal, SwpWithdrawn(res.value.yearlyData))
     /\ FEq(res.value.finalBalance,
            res.value.yearlyData[Len(res.value.yearlyData)].balance)
     /\ FLe(Zero(0), res.value.finalBalance)
     /\ \A i \in DOMAIN res.value.yearlyData : FLe(Zero(0), res.value.yearlyData[i].balance)

\* a plan paying out in two years, its second year ending on money left
C23_Witness ==
  /\ SwpReturned
  /\ FLt(Zero(0), args.extra) /\ IsInteger(args.extra)
  /\ Len(res.value.yearlyData) = 2
  /\ FLt(Zero(0), res.value.finalBalance)
  /\ FLt(res.value.yearlyData[1].withdrawalAmount, res.value.totalWithdrawal)

(***************************************************************************)
(* The yearly series of calculateSip, checked under SpecSip.               *)
(***************************************************************************)
\* contribution * periodsPerYear * y
SipInvestedBy(y) ==
  FMul(FMul(args.amount, FromInt(PeriodsPerYear(args.frequency))), FromInt(y))

\* the rounded closed-form value of the plan after y years
SipBalanceBy(y) ==
  MathRound(SipFutureValue(args.amount, PeriodicRate(args.rate, args.frequency),
                           FromInt(y * PeriodsPerYear(args.frequency))))

SipEntryClosedForm(entry, y) ==
  /\ entry.investedAmount = SipInvestedBy(y)
  /\ entry.balance = SipBalanceBy(y)

SipLastEntryIsSummary(value, entry) ==
  /\ entry.balance = value.totalValue
  /\ entry.investedAmount = value.investedAmount

\* C24: for calculateSip with rate > 0 and a positive whole number of years,
\* the entry for year y has investedAmount = contribution*periodsPerYear*y and
\* balance = the rounded closed-form annuity-due value at y*periodsPerYear
\* periods; the last entry's balance is totalValue and its investedAmount is
\* the summary investedAmount.
C24_YearlyClosedForm ==
  (SipReturned /\ FLt(Zero(0), args.rate) /\ FLe(One, args.years) /\ IsInteger(args.years))
  => /\ \A y \in DOMAIN res.value.yearlyData :
          SipEntryClosedForm(res.value.yearlyData[y], y)
     /\ SipLastEntryIsSummary(res.value, res.value.yearlyData[Len(res.value.yearlyData)])

(***************************************************************************)
(* The yearly series of every projector, checked under SpecSeries.        *)
(***************************************************************************)
\* the decimal numerals of the calendar years the model's calls can label
DecimalNumeral(n) ==
  CASE n = 2029 -> "2029" [] n = 2030 -> "2030" [] n = 2031 -> "2031"
    [] n = 2032 -> "2032" [] n = 2033 -> "2033" [] n = 2034 -> "2034"
    [] n = 2035 -> "2035" [] n = 2036 -> "2036" [] n = 2037 -> "2037"
    [] n = 2038 -> "2038" [] n = 2039 -> "2039" [] n = 2040 -> "2040"

\* the entries are for the years 1, 2, ... in this order, each labelled, where
\* it is labelled, with the calendar year it falls in
SeriesInOrder(yearlyData, currentYear) ==
  \A i \in DOMAIN yearlyData :
    /\ yearlyData[i].year = i
    /\ "yearLabel" \in DOMAIN yearlyData[i]
         => yearlyData[i].yearLabel = DecimalNumeral(currentYear + i - 1)

SeriesOfHorizon(fn, yearlyData, n, currentYear) ==
  /\ IF fn = "swp" THEN Len(yearlyData) <= n ELSE Len(yearlyData) = n
  /\ SeriesInOrder(yearlyData, currentYear)

\* the projectors that return a yearly series
SeriesProjectors == {"sip", "swp", "lumpsum", "topup", "schedule"}

\* C25: for a positive whole horizon N the yearly series of calculateSip,
\* calculateLumpsum, calculateSipTopUp and generateAmortizationSchedule has
\* exactly N entries with the year indices 1..N in ascending order, and that
\* of calculateSwp is a prefix of it; a yearLabel is the decimal string of
\* the calendar year of the call + year - 1.
C25_YearlySeries ==
  [][(/\ calls' = calls + 1
      /\ args.fn \in SeriesProjectors
      /\ FLe(One, args.years) /\ IsInteger(args.years))
     => SeriesOfHorizon(args.fn, YearlyDataOf(res'.value), LoopYears(args.years), clock)]_vars

\* a series of two years or more returned by a call made after New Year
C25_Witness ==
  /\ res.status = "returned"
  /\ args.fn \in SeriesProjectors \ {"schedule"}
  /\ clock = FirstYear + 1
  /\ Len(YearlyDataOf(res.value)) >= 2
  /\ YearlyDataOf(res.value)[2].yearLabel = DecimalNumeral(clock + 1)

(***************************************************************************)
(* The totals of calculateEmi, checked under SpecEmi.                      *)
(***************************************************************************)
\* the instalment before rounding
EmiUnrounded ==
  EmiOf(args.amount, FDiv(FDiv(args.rate, Twelve), Hundred), FMul(args.years, Twelve))

\* C26: for calculateEmi with a whole principal P, rate > 0 and tenure >= 1,
\* totalPayment is the rounded product of the unrounded EMI and
\* m = tenure*12, and the reported totalInterest is the reported
\* totalPayment minus P exactly.
C26_EmiTotals ==
  (/\ EmiReturned
   /\ IsInteger(args.amount) /\ FLt(Zero(0), args.rate) /\ FLe(One, args.years))
  => /\ res.value.totalPayment = MathRound(FMul(EmiUnrounded, FMul(args.years, Twelve)))
     /\ res.value.totalInterest = FSub(res.value.totalPayment, args.amount)

\* a loan whose total is not the rounded instalment times the months
C26_Witness ==
  /\ EmiReturned
  /\ IsInteger(args.amount) /\ FLt(Zero(0), args.amount)
  /\ FLt(Zero(0), args.rate) /\ FLe(One, args.years)
  /\ FLt(Zero(0), res.value.totalInterest)
  /\ res.value.totalPayment # FMul(res.value.emi, FMul(args.years, Twelve))

(***************************************************************************)
(* The frequency of calculateSip and calculateSipTopUp, checked under      *)
(* SpecFrequency.                                                          *)
(***************************************************************************)
\* the periods of a year by the name of the frequency
PeriodsByName == [daily |-> 365, weekly |-> 52, monthly |-> 12, quarterly |-> 4, yearly |-> 1]

\* a frequency without a name in the table counts as monthly
PeriodsNamed(frequency) ==
  IF frequency \in DOMAIN PeriodsByName THEN PeriodsByName[frequency]
  ELSE PeriodsByName["monthly"]

\* annualRate / periodsPerYear / 100
RateOver(periods) == FDiv(FDiv(args.rate, FromInt(periods)), Hundred)

\* what the two projectors return for a year of so many periods
SipOver(periods) == SipSwitched(args.amount, args.years, periods, RateOver(periods), clock)

TopUpOver(periods) ==
  TopUpResult(TopUpLoop([year |-> 1, currentInvestmentAmount |-> args.amount,
                         totalInvestedAmount |-> Zero(0), futureValue |-> Zero(0),
                         yearlyData |-> <<>>],
                        LoopYears(args.years), args.extra, RateOver(periods), periods, clock))

\* C27: calculateSip and calculateSipTopUp map the frequency to the same
\* periods of a year (daily 365, weekly 52, monthly 12, quarterly 4, yearly 1)
\* and to the periodic rate annualRate/periodsPerYear/100; any other frequency
\* is not rejected and is treated exactly as monthly.
C27_FrequencyMapping ==
  res.status = "returned"
  => res.value = IF args.fn = "sip" THEN SipOver(PeriodsNamed(args.frequency))
                 ELSE TopUpOver(PeriodsNamed(args.frequency))

\* a call with a frequency that is none of the five has returned a plan of
\* twelve periods a year
C27_Witness ==
  /\ res.status = "returned"
  /\ args.frequency \notin DOMAIN PeriodsByName
  /\ args.amount = FromInt(1000) /\ args.years = FromInt(2)
  /\ res.value.investedAmount = FromInt(24000)

(***************************************************************************)
(* The months of generateAmortizationSchedule, replayed one by one and     *)
(* checked under SpecEmi.                                                  *)
(***************************************************************************)
ScheduleMonthlyRate == FDiv(FDiv(args.rate, Twelve), Hundred)
ScheduleMonths == FMul(args.years, Twelve)
ScheduleEmi == EmiOf(args.amount, ScheduleMonthlyRate, ScheduleMonths)

\* the month loop's state at the start of a year that opens on the balance
ScheduleYearFrom(balance) ==
  [month |-> 1, yearlyPrincipal |-> Zero(0), yearlyInterest |-> Zero(0), balance |-> balance]

\* TRUE when every month of the year from st.month on repays some principal
RECURSIVE PortionsPositiveInYear(_, _, _)
PortionsPositiveInYear(st, year, emi) ==
  \/ st.month > 12
  \/ /\ FLe(FromInt((year - 1) * 12 + st.month), ScheduleMonths)
          => FLt(Zero(0), FSub(emi, FMul(st.balance, ScheduleMonthlyRate)))
     /\ PortionsPositiveInYear(AmortMonth(st, year, emi, ScheduleMonthlyRate, ScheduleMonths),
                               year, emi)

\* the same of every year from `year` on, which opens on the balance
RECURSIVE PortionsPositiveFrom(_, _, _, _)
PortionsPositiveFrom(balance, year, n, emi) ==
  \/ year > n
  \/ /\ PortionsPositiveInYear(ScheduleYearFrom(balance), year, emi)
     /\ PortionsPositiveFrom(AmortMonths(ScheduleYearFrom(balance), year, emi,
                                         ScheduleMonthlyRate, ScheduleMonths).balance,
                             year + 1, n, emi)

\* from one yearly entry to the next the balance and the interest do not
\* grow and the principal does not shrink
SchedulePaidDown(yearlyData) ==
  \A i \in 2..Len(yearlyData) :
    /\ FLe(yearlyData[i].balance, yearlyData[i - 1].balance)
    /\ FLe(yearlyData[i].interest, yearlyData[i - 1].interest)
    /\ FLe(yearlyData[i - 1].principal, yearlyData[i].principal)

\* C28: for rate > 0, a positive principal and a whole tenure every month's
\* principal portion in generateAmortizationSchedule is positive, so that the
\* reported balance and the yearly interest never increase and the yearly
\* principal never decreases from one yearly entry to the next.
C28_PrincipalPaidDown ==
  (ScheduleReturned /\ LoanValidInput)
  => /\ PortionsPositiveFrom(args.amount, 1, LoopYears(args.years), ScheduleEmi)
     /\ SchedulePaidDown(res.value)

(***************************************************************************)
(* Properties of the account routes, checked under SpecAccounts.           *)
(***************************************************************************)
\* the rows POST /api/register created: those after the rows of the start
Registered(table) == {i \in DOMAIN table : i > Len(SeedUsers)}

\* TRUE when the request is a PATCH /api/admin/users/:id/premium for the row,
\* with hasPremiumAccess = true, from a browser logged in as an ADMIN of the
\* table
GrantedByAdmin(request, table, logins, id) ==
  /\ request.fn = "PATCH /api/admin/users/:id/premium"
  /\ request.id = id
  /\ request.body.hasPremiumAccess = JsonBoolean(TRUE)
  /\ logins[request.browser] \in DOMAIN table
  /\ table[logins[request.browser]].role = USER_ROLES.ADMIN

\* TRUE when row i has premium access after the step and had none before it
PremiumGained(i) ==
  /\ users'[i].hasPremiumAccess
  /\ i \in DOMAIN users => ~users[i].hasPremiumAccess

\* C29: after any sequence of register, login, logout and reset-password
\* requests every user created through POST /api/register has role USER, and
\* a user gets hasPremiumAccess = true only by a PATCH
\* /api/admin/users/:id/premium for that user with hasPremiumAccess = true
\* from an authenticated ADMIN; no body field of a non-admin sets role or
\* hasPremiumAccess.
C29_OnlyAdminGrants ==
  [][/\ \A i \in Registered(users') : users'[i].role = USER_ROLES.USER
     /\ \A i \in DOMAIN users' :
          PremiumGained(i) => GrantedByAdmin(args', users, sessions, i)]_vars

\* a user who registered with role and hasPremiumAccess in the body, still
\* without premium access, next to a registered user an administrator gave
\* premium access to
C29_Witness ==
  /\ Len(users) = 3
  /\ \E i \in Registered(users) : users[i].username = "bob" /\ ~users[i].hasPremiumAccess
  /\ \E i \in Registered(users) : users[i].hasPremiumAccess

\* the routes that answer with a user record
UserRoutes ==
  {"POST /api/register", "POST /api/login", "GET /api/me",
   "PATCH /api/admin/users/:id/premium"}

\* C30: no API response that carries a user record (POST /api/register,
\* POST /api/login, GET /api/me, GET /api/admin/users, PATCH
\* /api/admin/users/:id/premium) contains that user's password field.
C30_NoPasswordInResponse ==
  reply \in {200, 201}
  => /\ args.fn \in UserRoutes => "password" \notin DOMAIN res.value
     /\ args.fn = "GET /api/admin/users"
          => \A i \in DOMAIN res.value : "password" \notin DOMAIN res.value[i]

====
